---- MODULE Spec2Model ----
(***************************************************************************)
(* A model of tribute's realization engine (src/src/portfolio.rs):         *)
(* Portfolio::add_trade, organize_trades and the main loop of              *)
(* Portfolio::realizations, over BigDecimal amounts.                       *)
(***************************************************************************)
EXTENDS Integers, Sequences, FiniteSets, TLC

(***************************************************************************)
(* Bounds of the model.                                                    *)
(***************************************************************************)
\* longest ledger built one add_trade at a time
MaxTrades == 2
\* amounts of the trades added one at a time are 1..MaxAmount
MaxAmount == 2
\* decimal digits of the integers the model computes with: an iteration of
\* the main loop of realizations() is followed while its arithmetic fits
MaxDigits == 8
\* significant digits kept by an inexact BigDecimal division
DivPrecision == 3
\* longest sequence of add_lot and sell calls made one at a time on a wallet
MaxCalls == 3
\* export: the vectors of transactions collected, the manual ones included
MaxVectors == 3
\* export: the transactions in all the vectors together
MaxRows == 3
\* export: the timestamps are 1..MaxStamp
MaxStamp == 2
\* the amounts formatted are n * 10^(-s), n in -MaxMantissa..MaxMantissa ...
MaxMantissa == 25
\* ... and s in 0..MaxScale
MaxScale == 5
MaxInputLen == 4
MaxItems == 2
MaxItemAmount == 1

(***************************************************************************)
(* BigDecimal.  A decimal is <<int_val, scale>> and stands for             *)
(* int_val * 10^(-scale).  BigDecimal compares by value, so the model      *)
(* keeps every decimal in the one form with the smallest scale >= 0.       *)
(***************************************************************************)
Min(x, y) == IF x <= y THEN x ELSE y
Max(x, y) == IF x >= y THEN x ELSE y
Abs(x) == IF x < 0 THEN -x ELSE x

\* 10^k, for the powers the integers of the model hold
Pow10(k) ==
  <<1, 10, 100, 1000, 10000, 100000, 1000000, 10000000, 100000000,
    1000000000>>[k + 1]

\* the decimal n * 10^(-s) with its trailing zeros stripped
Norm(n, s) ==
  IF n = 0 THEN <<0, 0>>
  ELSE IF s < 0 THEN <<n * Pow10(-s), 0>>
  ELSE LET zeros == Cardinality({k \in 1..Min(s, 9) : n % Pow10(k) = 0})
       IN <<n \div Pow10(zeros), s - zeros>>

Dec(n) == Norm(n, 0)
Zero == <<0, 0>>
One == <<1, 0>>

is_zero(a) == a[1] = 0

\* the int_val of a at scale s >= a[2]
Scaled(a, s) == a[1] * Pow10(s - a[2])

\* Op(a, b) with a and b evaluated once, before Op is applied
Apply2(Op(_, _), a, b) == CHOOSE r \in {Op(x, y) : x \in {a}, y \in {b}} : TRUE

AddValues(a, b) == Norm(Scaled(a, Max(a[2], b[2])) + Scaled(b, Max(a[2], b[2])),
                        Max(a[2], b[2]))
SubValues(a, b) == Norm(Scaled(a, Max(a[2], b[2])) - Scaled(b, Max(a[2], b[2])),
                        Max(a[2], b[2]))
MulValues(a, b) == Norm(a[1] * b[1], a[2] + b[2])
LtValues(a, b) == Scaled(a, Max(a[2], b[2])) < Scaled(b, Max(a[2], b[2]))

DecAdd(a, b) == Apply2(AddValues, a, b)
DecSub(a, b) == Apply2(SubValues, a, b)
DecMul(a, b) == Apply2(MulValues, a, b)
DecLt(a, b) == Apply2(LtValues, a, b)

count_decimal_digits(n) ==
  IF n < 10 THEN 1 ELSE Cardinality({k \in 0..9 : Pow10(k) <= n})

get_rounding_term(digit) == IF digit >= 5 THEN 1 ELSE 0

\* the long division of impl_division: one more digit of the quotient per
\* round, until the remainder is zero or the precision is reached
RECURSIVE DivDigits(_, _, _, _, _)
DivDigits(quotient, remainder, den, precision, scale) ==
  IF remainder # 0 /\ precision < DivPrecision
  THEN DivDigits(quotient * 10 + (remainder \div den),
                 (remainder % den) * 10, den, precision + 1, scale + 1)
  ELSE IF remainder # 0
  THEN <<quotient + get_rounding_term(remainder \div den), scale>>
  ELSE <<quotient, scale>>

RECURSIVE impl_division(_, _, _)
impl_division(num, den, scale) ==
  IF num < den THEN impl_division(num * 10, den, scale + 1)
  ELSE LET quotient == num \div den
           remainder == num % den
       IN IF remainder = 0 THEN <<quotient, scale>>
          ELSE DivDigits(quotient, remainder * 10, den,
                         count_decimal_digits(quotient), scale)

\* a / b for b # 0 (BigDecimal panics on b = 0)
DivValues(a, b) ==
  IF is_zero(a) \/ b = One THEN a
  ELSE IF a[1] = b[1] THEN Norm(1, a[2] - b[2])
  ELSE LET sign == IF (a[1] < 0) = (b[1] < 0) THEN 1 ELSE -1
           q == impl_division(Abs(a[1]), Abs(b[1]), a[2] - b[2])
       IN Norm(sign * q[1], q[2])

DecDiv(a, b) == Apply2(DivValues, a, b)


(***************************************************************************)
(* Symbols, amounts and trades.                                            *)
(***************************************************************************)
USD == "USD"
BTC == "BTC"
ETH == "ETH"
USDT == "USDT"

\* the rendering of a symbol in a description (Symbol::symbol)
symbol(s) == s

Amount(amount, sym) == [amount |-> amount, symbol |-> sym]

\* Trade{ when, kind: Kind::Trade{ offered, gained } }
Trade(when, offered, gained) ==
  [when |-> when, offered |-> offered, gained |-> gained]

\* Option<DateTime>
None == <<>>
Some(t) == <<t>>

(***************************************************************************)
(* Wallet (src/src/wallet.rs): the FIFO lot book add_trade keeps per       *)
(* symbol.                                                                 *)
(***************************************************************************)
Lot(amount, unit_cost, date) ==
  [amount |-> amount, unit_cost |-> unit_cost, date_of_purchase |-> date]

\* Wallet::new
NewWallet(token) ==
  [token |-> token, cumulative_bought |-> Zero, cumulative_sold |-> Zero,
   lots |-> <<>>]

\* Wallet::add_lot without the increment of cumulative_bought
add_lot_uncounted(w, amount, unit_cost, date) ==
  [w EXCEPT !.lots = Append(@, Lot(amount, unit_cost, date))]

\* Wallet::add_lot
add_lot(w, amount, unit_cost, date) ==
  [w EXCEPT !.cumulative_bought = DecAdd(@, amount),
            !.lots = Append(@, Lot(amount, unit_cost, date))]

\* Wallet::cost_basis
RECURSIVE SumCosts(_)
SumCosts(lots) ==
  IF lots = <<>> THEN Zero
  ELSE DecAdd(DecMul(lots[1].amount, lots[1].unit_cost), SumCosts(Tail(lots)))

WalletCostBasis(w) == SumCosts(w.lots)

\* Wallet::count
RECURSIVE SumLots(_)
SumLots(lots) ==
  IF lots = <<>> THEN Zero ELSE DecAdd(lots[1].amount, SumLots(Tail(lots)))

WalletCount(w) == SumLots(w.lots)

\* the for loop of Wallet::sell from lot i on; acc is the loop's state
RECURSIVE SellLots(_, _, _)
SellLots(lots, i, acc) ==
  IF i > Len(lots) THEN [acc EXCEPT !.lots = lots]
  ELSE LET lot == lots[i] IN
    IF DecLt(acc.amount_to_consume, lot.amount)
    THEN [acc EXCEPT
            !.lots = [lots EXCEPT ![i].amount =
                        DecSub(lot.amount, acc.amount_to_consume)],
            !.total_cost =
               DecAdd(@, DecMul(acc.amount_to_consume, lot.unit_cost)),
            !.amount_to_consume = Zero]
    ELSE SellLots(lots, i + 1,
           [acc EXCEPT
              !.total_cost = DecAdd(@, DecMul(lot.amount, lot.unit_cost)),
              !.amount_to_consume = DecSub(@, lot.amount),
              !.lots_consumed = @ + 1])

\* Wallet::sell walking the lots from the newest to the oldest
WalletSellNewestFirst(w, amount) ==
  LET newest_first == [i \in 1..Len(w.lots) |-> w.lots[Len(w.lots) + 1 - i]]
      r == SellLots(newest_first, 1,
             [lots |-> newest_first, total_cost |-> Zero, lots_consumed |-> 0,
              amount_to_consume |-> amount])
      left == SubSeq(r.lots, r.lots_consumed + 1, Len(r.lots))
  IN [wallet |-> [w EXCEPT
                    !.cumulative_sold = DecAdd(@, amount),
                    !.lots = [i \in 1..Len(left) |-> left[Len(left) + 1 - i]]],
      sale |-> [cost_basis |-> r.total_cost,
                date_of_purchase |->
                  IF w.lots = <<>> THEN None
                  ELSE Some(w.lots[1].date_of_purchase)]]

\* Wallet::sell returning the date of the last lot of the wallet
WalletSellLastDate(w, amount) ==
  LET r == SellLots(w.lots, 1,
             [lots |-> w.lots, total_cost |-> Zero, lots_consumed |-> 0,
              amount_to_consume |-> amount])
  IN [wallet |-> [w EXCEPT
                    !.cumulative_sold = DecAdd(@, amount),
                    !.lots = SubSeq(r.lots, r.lots_consumed + 1, Len(r.lots))],
      sale |-> [cost_basis |-> r.total_cost,
                date_of_purchase |->
                  IF w.lots = <<>> THEN None
                  ELSE Some(w.lots[Len(w.lots)].date_of_purchase)]]

\* Wallet::sell taking the whole amount from the first lot, whatever it holds
WalletSellUnchecked(w, amount) ==
  [wallet |-> [w EXCEPT
                 !.cumulative_sold = DecAdd(@, amount),
                 !.lots = IF w.lots = <<>> THEN <<>>
                          ELSE [w.lots EXCEPT ![1].amount = DecSub(@, amount)]],
   sale |-> [cost_basis |-> IF w.lots = <<>> THEN Zero
                            ELSE DecMul(amount, w.lots[1].unit_cost),
             date_of_purchase |->
               IF w.lots = <<>> THEN None
               ELSE Some(w.lots[1].date_of_purchase)]]

\* Wallet::sell without the drain of the lots it consumed
WalletSellNoDrain(w, amount) ==
  LET r == SellLots(w.lots, 1,
             [lots |-> w.lots, total_cost |-> Zero, lots_consumed |-> 0,
              amount_to_consume |-> amount])
  IN [wallet |-> [w EXCEPT
                    !.cumulative_sold = DecAdd(@, amount),
                    !.lots = r.lots],
      sale |-> [cost_basis |-> r.total_cost,
                date_of_purchase |->
                  IF w.lots = <<>> THEN None
                  ELSE Some(w.lots[1].date_of_purchase)]]

\* Wallet::sell adding to cumulative_sold only what the lots could satisfy
WalletSellCountsSatisfied(w, amount) ==
  LET r == SellLots(w.lots, 1,
             [lots |-> w.lots, total_cost |-> Zero, lots_consumed |-> 0,
              amount_to_consume |-> amount])
  IN [wallet |-> [w EXCEPT
                    !.cumulative_sold =
                       DecAdd(@, DecSub(amount, r.amount_to_consume)),
                    !.lots = SubSeq(r.lots, r.lots_consumed + 1, Len(r.lots))],
      sale |-> [cost_basis |-> r.total_cost,
                date_of_purchase |->
                  IF w.lots = <<>> THEN None
                  ELSE Some(w.lots[1].date_of_purchase)]]

\* Wallet::sell leaving out of total_cost what it takes from the lot it
\* consumes in part
WalletSellPartUncosted(w, amount) ==
  LET r == SellLots(w.lots, 1,
             [lots |-> w.lots, total_cost |-> Zero, lots_consumed |-> 0,
              amount_to_consume |-> amount])
  IN [wallet |-> [w EXCEPT
                    !.cumulative_sold = DecAdd(@, amount),
                    !.lots = SubSeq(r.lots, r.lots_consumed + 1, Len(r.lots))],
      sale |-> [cost_basis |-> SumCosts(SubSeq(w.lots, 1, r.lots_consumed)),
                date_of_purchase |->
                  IF w.lots = <<>> THEN None
                  ELSE Some(w.lots[1].date_of_purchase)]]

\* Wallet::sell: the wallet after the call and the Sale it returns
WalletSell(w, amount) ==
  LET r == SellLots(w.lots, 1,
             [lots |-> w.lots, total_cost |-> Zero, lots_consumed |-> 0,
              amount_to_consume |-> amount])
  IN [wallet |-> [w EXCEPT
                    !.cumulative_sold = DecAdd(@, amount),
                    !.lots = SubSeq(r.lots, r.lots_consumed + 1, Len(r.lots))],
      sale |-> [cost_basis |-> r.total_cost,
                date_of_purchase |->
                  IF w.lots = <<>> THEN None
                  ELSE Some(w.lots[1].date_of_purchase)]]

\* HashMap::entry(key).or_insert_with(make)
OrInsert(map, key, fresh) ==
  IF key \in DOMAIN map THEN map ELSE (key :> fresh) @@ map

\* Portfolio::buy
PortfolioBuy(ws, date, offered, gained) ==
  LET m == OrInsert(ws, gained.symbol, NewWallet(gained.symbol))
  IN [m EXCEPT ![gained.symbol] = add_lot(@, gained.amount, gained.amount, date)]

\* Portfolio::sell
PortfolioSell(ws, date, offered, gained) ==
  LET m == OrInsert(ws, offered.symbol, NewWallet(gained.symbol))
  IN [m EXCEPT ![offered.symbol] = WalletSell(@, offered.amount).wallet]

(***************************************************************************)
(* The calls the model makes on a wallet of its own: every sequence of at  *)
(* most MaxCalls add_lot and sell calls with small amounts and unit costs, *)
(* zero included, the lots dated in the order they are added, and the      *)
(* calls of the tests of wallet.rs.                                        *)
(***************************************************************************)
AddLotCall(amount, unit_cost, date) ==
  [op |-> "add_lot", amount |-> amount, unit_cost |-> unit_cost, date |-> date]

SellCall(amount) == [op |-> "sell", amount |-> amount]

CallAmounts == {Dec(a) : a \in 0..MaxAmount}

GenericCalls(date) ==
  {AddLotCall(a, c, date) : a \in CallAmounts, c \in CallAmounts}
    \cup {SellCall(a) : a \in CallAmounts}

\* every call of cs is a generic one: cs[i] is in GenericCalls(i)
IsGenericCalls(cs) ==
  \A i \in 1..Len(cs) :
    /\ cs[i].amount \in CallAmounts
    /\ cs[i].op = "add_lot" =>
         cs[i].unit_cost \in CallAmounts /\ cs[i].date = i

CallsSell ==
  << AddLotCall(Dec(10), Dec(1), 20180101), AddLotCall(Dec(10), Dec(2), 20180201),
     AddLotCall(Dec(10), Dec(3), 20180301),
     SellCall(Dec(5)), SellCall(Dec(10)), SellCall(Dec(10)) >>
CallsSellFail ==
  << AddLotCall(<<444, 4>>, Dec(2), 20180101), AddLotCall(Dec(1), Dec(1), 20180201),
     SellCall(<<5, 1>>) >>
CallsSellNoLots == << SellCall(Dec(5)) >>
CallsSellInExcess == << AddLotCall(Dec(2), Dec(1), 20180101), SellCall(Dec(5)) >>

TestCalls == {CallsSell, CallsSellFail, CallsSellNoLots, CallsSellInExcess}

\* the calls that may follow the calls cs
NextCalls(cs) ==
  (IF Len(cs) < MaxCalls /\ IsGenericCalls(cs)
   THEN GenericCalls(Len(cs) + 1) ELSE {})
  \cup {t[Len(cs) + 1] :
          t \in {t \in TestCalls : Len(t) > Len(cs) /\ SubSeq(t, 1, Len(cs)) = cs}}

(***************************************************************************)
(* The ledgers the model feeds to add_trade: every ledger of at most       *)
(* MaxTrades trades over three symbols with small amounts, entered in the  *)
(* order of their timestamps, and the ledgers of the repository's tests    *)
(* and documented scenarios.  The engine only copies Trade.when into its   *)
(* result: no branch of it reads a timestamp.  It compares symbols only    *)
(* for equality, so the ledgers are taken up to the renaming of the        *)
(* symbols: the denomination is USD, and of the two other symbols BTC is   *)
(* the one a ledger mentions first.                                        *)
(***************************************************************************)
Symbols == {USD, BTC, ETH}
Amounts == {Dec(n) : n \in 1..MaxAmount}

\* the trades of timestamp when
GenericTrades(when) ==
  {Trade(when, Amount(a, so), Amount(g, sg)) :
     a \in Amounts, so \in Symbols, g \in Amounts, sg \in Symbols}

\* the ledger l was entered one generic trade at a time: l[i] is in
\* GenericTrades(i)
IsGeneric(l) ==
  \A i \in 1..Len(l) :
    /\ l[i].when = i
    /\ l[i].offered.symbol \in Symbols /\ l[i].gained.symbol \in Symbols
    /\ l[i].offered.amount \in Amounts /\ l[i].gained.amount \in Amounts

\* the position of the first mention of sym in the ledger l (offered before
\* gained), beyond the last position when there is none
FirstMention(l, sym) ==
  Min(2 * Len(l) + 1,
      Min(IF \E i \in 1..Len(l) : l[i].offered.symbol = sym
          THEN 2 * (CHOOSE i \in 1..Len(l) :
                      /\ l[i].offered.symbol = sym
                      /\ \A j \in 1..(i - 1) : l[j].offered.symbol # sym) - 1
          ELSE 2 * Len(l) + 1,
          IF \E i \in 1..Len(l) : l[i].gained.symbol = sym
          THEN 2 * (CHOOSE i \in 1..Len(l) :
                      /\ l[i].gained.symbol = sym
                      /\ \A j \in 1..(i - 1) : l[j].gained.symbol # sym)
          ELSE 2 * Len(l) + 1))

\* one ledger for each class of ledgers equal up to the renaming of BTC and ETH
CanonicalSymbols(l) == FirstMention(l, BTC) <= FirstMention(l, ETH)

usd(n) == Amount(Dec(n), USD)
usdt(n) == Amount(Dec(n), USDT)
eth(n) == Amount(Dec(n), ETH)
btc(n) == Amount(Dec(n), BTC)
\* btc!(0.1), btc!(0.5), btc!(0.25)
btc_tenth == Amount(<<1, 1>>, BTC)
btc_half == Amount(<<5, 1>>, BTC)
btc_quarter == Amount(<<25, 2>>, BTC)

LedgerProfit ==
  << Trade(20170101, usd(1000), btc(1)), Trade(20200101, btc(1), usd(2000)) >>
LedgerLoss ==
  << Trade(20170101, usd(1000), btc(1)), Trade(20200101, btc(1), usd(500)) >>
LedgerPartialSales ==
  << Trade(20170101, usd(1000), btc(1)), Trade(20200101, btc_half, usd(600)),
     Trade(20200101, btc_quarter, usd(700)) >>
LedgerTwoToOne ==
  << Trade(20170101, usd(1000), btc(1)), Trade(20180101, usd(1000), btc(1)),
     Trade(20200101, btc(2), usd(4000)) >>
LedgerInsufficientFunds ==
  << Trade(20170101, usd(1000), btc(1)), Trade(20200101, btc(2), usd(4000)) >>
LedgerExchange ==
  << Trade(20170101, usd(1000), btc(1)), Trade(20180101, btc(1), usdt(2000)),
     Trade(20200101, usdt(2000), usd(2000)) >>
LedgerExchangeLoss ==
  << Trade(20170101, usd(4000), btc(1)), Trade(20180101, btc(1), usdt(2000)),
     Trade(20200101, usdt(2000), usd(2000)) >>
LedgerChain ==
  << Trade(20160101, usd(100), usdt(25)), Trade(20160102, usd(100), usdt(25)),
     Trade(20170101, usd(100), usdt(25)), Trade(20180101, usdt(40), eth(2)),
     Trade(20190101, eth(2), btc_tenth), Trade(20200102, btc_tenth, usd(4000)) >>
\* scenario 6 of the documentation: exchange, then a smaller liquidation
LedgerExchangePartial ==
  << Trade(20170101, usd(1000), btc(2)), Trade(20180101, btc(1), usdt(2000)),
     Trade(20200101, usdt(1000), usd(2000)) >>

\* a lot split by a first sale, then oversold by a second one
LedgerSplits ==
  << Trade(20170101, usd(1000), btc(2)), Trade(20190101, btc(1), usd(900)),
     Trade(20200101, btc(2), usd(3000)) >>
\* an oversold lot, then one more sale
LedgerOversoldThenSale ==
  << Trade(20170101, usd(1000), btc(1)), Trade(20200101, btc(2), usd(4000)),
     Trade(20200102, btc(1), usd(3000)) >>

\* two lots of 4 and 3, then a sale of their total: the shares 4/7 and 3/7
\* have no finite decimal expansion
LedgerUnevenLots ==
  << Trade(20170101, usd(1), btc(4)), Trade(20180101, usd(2), btc(3)),
     Trade(20200101, btc(7), usd(7)) >>

\* a lot of 3 sold one at a time: the shares 1/3 have no finite expansion
LedgerThirds ==
  << Trade(20170101, usd(1), btc(3)), Trade(20200101, btc(1), usd(1)),
     Trade(20200102, btc(1), usd(1)) >>

\* test_organize_trades: the purchase is dated after the sale
LedgerOrganize ==
  << Trade(20200103, usd(300), btc(1)), Trade(20200102, btc(1), usd(57000)) >>

\* two lots and two sales: the first sale takes the first lot and half of the
\* second, the second sale the rest
LedgerTwoSales ==
  << Trade(20170101, usd(1000), btc(1)), Trade(20180101, usd(3000), btc(2)),
     Trade(20200101, btc(2), usd(4000)), Trade(20200102, btc(1), usd(3000)) >>

\* a trade of BTC for BTC before the purchase and the sale of the profit test
LedgerNoOp ==
  << Trade(20160101, btc(1), btc(1)), Trade(20170101, usd(1000), btc(1)),
     Trade(20200101, btc(1), usd(2000)) >>

\* a purchase of 2 * 10^DivPrecision tokens and a sale of all but one of
\* them: the quotient of the two has one digit more than a division keeps
LedgerAllButOne ==
  << Trade(20170101, usd(1), btc(2 * Pow10(DivPrecision))),
     Trade(20200101, btc(2 * Pow10(DivPrecision) - 1), usd(1)) >>

\* two lots, a sale of half the first one, then a sale of all that is left
LedgerFirstOfTwoLots ==
  << Trade(20170101, usd(1000), btc(2)), Trade(20180101, usd(3000), btc(1)),
     Trade(20200101, btc(1), usd(4000)), Trade(20200102, btc(2), usd(6000)) >>

TestLedgers ==
  {LedgerProfit, LedgerLoss, LedgerPartialSales, LedgerTwoToOne,
   LedgerInsufficientFunds, LedgerExchange, LedgerExchangeLoss, LedgerChain,
   LedgerExchangePartial, LedgerSplits, LedgerOversoldThenSale,
   LedgerUnevenLots, LedgerThirds, LedgerOrganize, LedgerTwoSales,
   LedgerNoOp, LedgerAllButOne, LedgerFirstOfTwoLots}

IsPrefix(p, l) == Len(p) <= Len(l) /\ SubSeq(l, 1, Len(p)) = p

\* the trades add_trade may be called with after the ledger l
NextTrades(l) ==
  (IF Len(l) < MaxTrades /\ IsGeneric(l)
   THEN {t \in GenericTrades(Len(l) + 1) : CanonicalSymbols(Append(l, t))}
   ELSE {})
  \cup {t[Len(l) + 1] : t \in {t \in TestLedgers : Len(t) > Len(l) /\ IsPrefix(l, t)}}

\* the denominations realizations is called with
Denominations == {USD}

(***************************************************************************)
(* State: the Portfolio (wallets, trades), and the locals of one call of   *)
(* Portfolio::realizations with the position in it.                        *)
(***************************************************************************)
VARIABLES
  wallets,          \* Portfolio.wallets: symbol -> Wallet, for the symbols present
  trades,           \* Portfolio.trades
  pc,               \* "ledger": between calls; "loop": in the while loop of
                    \* realizations; "done": realizations has returned
  denomination,     \* the argument of realizations
  trades_by_gained, \* symbol -> queue of Sale, for the symbols present
  final_sales,      \* queue of Sale
  realizations,     \* the result vector
  branch,           \* the branch of the loop body taken by the last iteration
  returned,         \* what the previous call of realizations on this
                    \* portfolio returned, if there was one
  wallet,           \* a Wallet used on its own
  calls,            \* the add_lot and sell calls made on it so far
  last,             \* the last of them: the wallet before it and, for a
                    \* sell, the Sale it returned
  exchange_transactions, \* export: the vectors of transactions collected
  export_pc,        \* "start": export not called; "exchanges": in its loop
                    \* over config.exchanges; "ok", "err": returned Ok, Err
  written,          \* the rows export has written after the header, if it
                    \* has come to writing
  formatted,        \* the last string made or read: the function that made
                    \* it, the amount it was given and the text
  parsed,           \* what parse_amount returned for that text, if called
  line_items,       \* report: the records read from the input, sorted
  item,             \* the position in line_items of the next record
  report_wallets,   \* token -> the lots of its Wallet, for the tokens met
  totals,           \* total_proceeds, total_cost, total_gain
  report_rows,      \* the records report has written so far
  report_pc         \* "start": report not called; "loop": in its for loop;
                    \* "total": left by break; "ok": returned Ok; "panic"

walletVars == <<wallet, calls, last>>

engineVars == <<wallets, trades, pc, denomination, trades_by_gained,
                final_sales, realizations, branch, returned>>

exportVars == <<exchange_transactions, export_pc, written>>

formatVars == <<formatted, parsed>>

reportVars == <<line_items, item, report_wallets, totals, report_rows,
               report_pc>>

vars == <<wallets, trades, pc, denomination, trades_by_gained, final_sales,
          realizations, branch, returned, wallet, calls, last,
          exchange_transactions, export_pc, written, formatted, parsed,
          line_items, item, report_wallets, totals, report_rows, report_pc>>

EmptyMap == <<>>

\* Portfolio::new
Init ==
  /\ wallets = EmptyMap
  /\ trades = <<>>
  /\ pc = "ledger"
  /\ denomination = USD
  /\ trades_by_gained = EmptyMap
  /\ final_sales = <<>>
  /\ realizations = <<>>
  /\ branch = "none"
  /\ returned = None
  /\ wallet = NewWallet(BTC)
  /\ calls = <<>>
  /\ last = None
  /\ exchange_transactions = <<>>
  /\ export_pc = "start"
  /\ written = None
  /\ formatted = None
  /\ parsed = None
  /\ line_items = <<>>
  /\ item = 1
  /\ report_wallets = EmptyMap
  /\ totals = [proceeds |-> Zero, cost |-> Zero, gain |-> Zero]
  /\ report_rows = <<>>
  /\ report_pc = "start"

\* Portfolio::add_trade
AddTrade ==
  /\ pc = "ledger"
  /\ \E t \in NextTrades(trades) :
       /\ wallets' = PortfolioSell(
                       PortfolioBuy(wallets, t.when, t.offered, t.gained),
                       t.when, t.offered, t.gained)
       /\ trades' = Append(trades, t)
  /\ UNCHANGED <<walletVars, exportVars, formatVars, reportVars>>
  /\ UNCHANGED <<returned, pc, denomination, trades_by_gained, final_sales,
                 realizations, branch>>

(***************************************************************************)
(* organize_trades: the two FIFO structures of the realization engine.     *)
(***************************************************************************)
Sale(when, original_symbol, offered, gained) ==
  [when |-> when, original_symbol |-> original_symbol,
   offered |-> offered, gained |-> gained]

\* the for loop of organize_trades from trade i on
RECURSIVE OrganizeFrom(_, _, _, _, _)
OrganizeFrom(ts, i, d, by_gained, sales) ==
  IF i > Len(ts) THEN <<by_gained, sales>>
  ELSE LET t == ts[i]
           sale == Sale(t.when, t.offered.symbol, t.offered, t.gained)
       IN IF t.gained.symbol = d
          THEN OrganizeFrom(ts, i + 1, d, by_gained, Append(sales, sale))
          ELSE LET m == OrInsert(by_gained, t.gained.symbol, <<>>)
               IN OrganizeFrom(ts, i + 1, d,
                    [m EXCEPT ![t.gained.symbol] = Append(@, sale)], sales)

\* organize_trades reading the ledger from its last trade to its first
organize_trades_backwards(ts, d) ==
  OrganizeFrom([i \in 1..Len(ts) |-> ts[Len(ts) + 1 - i]], 1, d, EmptyMap, <<>>)

organize_trades(ts, d) == OrganizeFrom(ts, 1, d, EmptyMap, <<>>)

(***************************************************************************)
(* The values computed by one iteration of the while loop of               *)
(* Portfolio::realizations for the popped sale `trade` and the popped      *)
(* acquiring sale `matching`.                                              *)
(***************************************************************************)
Realization(description, acquired_when, disposed_when, proceeds, cost_basis, gain) ==
  [description |-> description, acquired_when |-> acquired_when,
   disposed_when |-> disposed_when, proceeds |-> proceeds,
   cost_basis |-> cost_basis, gain |-> gain]

Description(original_symbol, d) ==
  symbol(original_symbol) \o " sold via " \o symbol(original_symbol)
    \o "-" \o symbol(d) \o " pair"

\* trade.offered.amount < matching.gained.amount: the acquiring trade is split
CaseADivisor(trade, matching) ==
  DecDiv(trade.offered.amount, matching.gained.amount)

\* the realization of case A with the operands of the gain exchanged
CaseARealizationSwapped(trade, matching, description) ==
  LET divisor == CaseADivisor(trade, matching)
      proceeds == trade.gained.amount
      cost_basis == DecMul(matching.offered.amount, divisor)
      gain == DecSub(cost_basis, proceeds)
  IN Realization(description, Some(matching.when), trade.when,
                 proceeds, cost_basis, gain)

CaseARealization(trade, matching, description) ==
  LET divisor == CaseADivisor(trade, matching)
      proceeds == trade.gained.amount
      cost_basis == DecMul(matching.offered.amount, divisor)
      gain == DecSub(proceeds, cost_basis)
  IN Realization(description, Some(matching.when), trade.when,
                 proceeds, cost_basis, gain)

\* the remainder of case A with the whole cost of the acquiring trade
CaseARemainderWholeCost(trade, matching) ==
  LET remainder_gained == DecSub(matching.gained.amount, trade.offered.amount)
  IN Sale(matching.when, matching.original_symbol,
          Amount(matching.offered.amount, matching.offered.symbol),
          Amount(remainder_gained, matching.gained.symbol))

CaseARemainder(trade, matching) ==
  LET divisor == CaseADivisor(trade, matching)
      remainder_gained == DecSub(matching.gained.amount, trade.offered.amount)
      remainder_offered ==
        DecSub(matching.offered.amount,
               DecMul(matching.offered.amount, divisor))
  IN Sale(matching.when, matching.original_symbol,
          Amount(remainder_offered, matching.offered.symbol),
          Amount(remainder_gained, matching.gained.symbol))

\* the matching queue after case A with the remainder pushed at the back
CaseAQueueAtBack(trade, matching, rest) ==
  rest \o <<CaseARemainder(trade, matching)>>

\* the matching queue after case A: the remainder goes to the front
CaseAQueue(trade, matching, rest) ==
  <<CaseARemainder(trade, matching)>> \o rest

\* otherwise: the sale is split
CaseBDivisor(trade, matching) ==
  DecDiv(matching.gained.amount, trade.offered.amount)

CaseBProceeds(trade, matching) ==
  DecMul(trade.gained.amount, CaseBDivisor(trade, matching))

CaseBRealization(trade, matching, description) ==
  LET proceeds == CaseBProceeds(trade, matching)
      cost_basis == matching.offered.amount
      gain == DecSub(proceeds, cost_basis)
  IN Realization(description, Some(matching.when), trade.when,
                 proceeds, cost_basis, gain)

\* the sale pushed back onto the matching queue when the acquiring trade was
\* not paid for in the denomination
CaseBRequeued(trade, matching) ==
  Sale(matching.when, matching.original_symbol,
       Amount(trade.offered.amount, matching.offered.symbol),
       Amount(CaseBProceeds(trade, matching), matching.gained.symbol))

\* the remainder of case B labelled with the symbol it gains
CaseBRemainderRelabelled(trade, matching) ==
  LET divisor == CaseBDivisor(trade, matching)
      proceeds == CaseBProceeds(trade, matching)
      remainder_gained == DecSub(trade.gained.amount, proceeds)
      remainder_offered ==
        DecSub(trade.offered.amount, DecMul(trade.offered.amount, divisor))
  IN Sale(trade.when, trade.gained.symbol,
          Amount(remainder_offered, trade.offered.symbol),
          Amount(remainder_gained, trade.gained.symbol))

CaseBRemainder(trade, matching) ==
  LET divisor == CaseBDivisor(trade, matching)
      proceeds == CaseBProceeds(trade, matching)
      remainder_gained == DecSub(trade.gained.amount, proceeds)
      remainder_offered ==
        DecSub(trade.offered.amount, DecMul(trade.offered.amount, divisor))
  IN Sale(trade.when, trade.original_symbol,
          Amount(remainder_offered, trade.offered.symbol),
          Amount(remainder_gained, trade.gained.symbol))

\* final_sales after case B with the remainder pushed at the back
CaseBFinalSalesAtBack(trade, matching, rest) ==
  LET remainder == CaseBRemainder(trade, matching)
  IN IF ~is_zero(remainder.gained.amount) THEN rest \o <<remainder>> ELSE rest

\* final_sales after case B: the remainder goes to the front unless its
\* gained amount is zero
CaseBFinalSales(trade, matching, rest) ==
  LET remainder == CaseBRemainder(trade, matching)
  IN IF ~is_zero(remainder.gained.amount) THEN <<remainder>> \o rest ELSE rest

\* the matching queue is empty
UncoveredRealization(trade, description) ==
  Realization(description, None, trade.when,
              trade.gained.amount, Zero, trade.gained.amount)

(***************************************************************************)
(* The model follows an iteration only while its arithmetic fits in        *)
(* MaxDigits decimal digits (BigDecimal itself is unbounded).              *)
(***************************************************************************)
Digits(a) == count_decimal_digits(Abs(a[1]))

AlignFits(a, b) ==
  /\ Digits(a) + Max(0, b[2] - a[2]) <= MaxDigits
  /\ Digits(b) + Max(0, a[2] - b[2]) <= MaxDigits

MulFits(a, b) == Digits(a) + Digits(b) <= MaxDigits

DivFits(a, b) == Digits(a) < MaxDigits /\ Digits(b) < MaxDigits

StepFits(trade, matching) ==
  LET to == trade.offered.amount
      tg == trade.gained.amount
      mo == matching.offered.amount
      mg == matching.gained.amount
  IN /\ AlignFits(to, mg)
     /\ DivFits(to, mg)
     /\ IF DecLt(to, mg)
        THEN LET divisor == DecDiv(to, mg) IN
             /\ MulFits(mo, divisor)
             /\ AlignFits(tg, DecMul(mo, divisor))
             /\ AlignFits(mo, DecMul(mo, divisor))
        ELSE LET divisor == DecDiv(mg, to) IN
             /\ MulFits(tg, divisor)
             /\ MulFits(to, divisor)
             /\ AlignFits(DecMul(tg, divisor), mo)
             /\ AlignFits(tg, DecMul(tg, divisor))
             /\ AlignFits(to, DecMul(to, divisor))

(***************************************************************************)
(* Portfolio::realizations.                                                *)
(***************************************************************************)
\* the call: organize_trades and the empty result vector
RealizationsCall ==
  /\ pc = "ledger"
  /\ \E d \in Denominations :
       LET organized == organize_trades(trades, d) IN
       /\ denomination' = d
       /\ trades_by_gained' = organized[1]
       /\ final_sales' = organized[2]
  /\ realizations' = <<>>
  /\ branch' = "none"
  /\ pc' = "loop"
  /\ UNCHANGED <<walletVars, exportVars, formatVars, reportVars>>
  /\ UNCHANGED <<returned, wallets, trades>>

\* trades_by_gained has no queue for the offered symbol: the popped sale is
\* dropped
NoQueue ==
  /\ pc = "loop" /\ final_sales # <<>>
  /\ Head(final_sales).offered.symbol \notin DOMAIN trades_by_gained
  /\ final_sales' = Tail(final_sales)
  /\ branch' = "no_queue"
  /\ UNCHANGED <<walletVars, exportVars, formatVars, reportVars>>
  /\ UNCHANGED <<returned, wallets, trades, pc, denomination, trades_by_gained,
                 realizations>>

\* the queue is empty: an uncovered realization, and break
EmptyQueue ==
  /\ pc = "loop" /\ final_sales # <<>>
  /\ LET trade == Head(final_sales) IN
     /\ trade.offered.symbol \in DOMAIN trades_by_gained
     /\ trades_by_gained[trade.offered.symbol] = <<>>
     /\ realizations' = Append(realizations,
          UncoveredRealization(trade,
            Description(trade.original_symbol, denomination)))
  /\ final_sales' = Tail(final_sales)
  /\ branch' = "uncovered"
  /\ pc' = "done"
  /\ UNCHANGED <<walletVars, exportVars, formatVars, reportVars>>
  /\ UNCHANGED <<returned, wallets, trades, denomination, trades_by_gained>>

\* the loop body has popped a sale whose matching queue is not empty
Matches ==
  /\ pc = "loop" /\ final_sales # <<>>
  /\ Head(final_sales).offered.symbol \in DOMAIN trades_by_gained
  /\ trades_by_gained[Head(final_sales).offered.symbol] # <<>>

\* trade.offered.amount < matching.gained.amount: a realization, and the
\* remainder of the acquiring trade goes back to the front of its queue
CaseA ==
  /\ Matches
  /\ LET trade == Head(final_sales)
         queue == trades_by_gained[trade.offered.symbol]
         matching == Head(queue)
     IN /\ DecLt(trade.offered.amount, matching.gained.amount)
        /\ StepFits(trade, matching)
        /\ realizations' = Append(realizations,
             CaseARealization(trade, matching,
               Description(trade.original_symbol, denomination)))
        /\ trades_by_gained' =
             [trades_by_gained EXCEPT ![trade.offered.symbol] =
                CaseAQueue(trade, matching, Tail(queue))]
        /\ final_sales' = Tail(final_sales)
  /\ branch' = "case_a"
  /\ UNCHANGED <<walletVars, exportVars, formatVars, reportVars>>
  /\ UNCHANGED <<returned, wallets, trades, pc, denomination>>

\* otherwise, and the acquiring trade was paid for in the denomination: a
\* realization, and the remainder of the sale goes back to final_sales
CaseBRealize ==
  /\ Matches
  /\ LET trade == Head(final_sales)
         queue == trades_by_gained[trade.offered.symbol]
         matching == Head(queue)
     IN /\ ~DecLt(trade.offered.amount, matching.gained.amount)
        /\ matching.offered.symbol = denomination
        /\ StepFits(trade, matching)
        /\ realizations' = Append(realizations,
             CaseBRealization(trade, matching,
               Description(trade.original_symbol, denomination)))
        /\ trades_by_gained' =
             [trades_by_gained EXCEPT ![trade.offered.symbol] = Tail(queue)]
        /\ final_sales' = CaseBFinalSales(trade, matching, Tail(final_sales))
  /\ branch' = "case_b_realize"
  /\ UNCHANGED <<walletVars, exportVars, formatVars, reportVars>>
  /\ UNCHANGED <<returned, wallets, trades, pc, denomination>>

\* otherwise, and the acquiring trade was paid for in another symbol: a sale
\* goes back to the front of the matching queue, the remainder to final_sales
CaseBRequeue ==
  /\ Matches
  /\ LET trade == Head(final_sales)
         queue == trades_by_gained[trade.offered.symbol]
         matching == Head(queue)
     IN /\ ~DecLt(trade.offered.amount, matching.gained.amount)
        /\ matching.offered.symbol # denomination
        /\ StepFits(trade, matching)
        /\ trades_by_gained' =
             [trades_by_gained EXCEPT ![trade.offered.symbol] =
                <<CaseBRequeued(trade, matching)>> \o Tail(queue)]
        /\ final_sales' = CaseBFinalSales(trade, matching, Tail(final_sales))
  /\ branch' = "case_b_requeue"
  /\ UNCHANGED <<walletVars, exportVars, formatVars, reportVars>>
  /\ UNCHANGED <<returned, wallets, trades, pc, denomination, realizations>>

\* final_sales is empty and the ledger is emptied on return
ReturnDrainingLedger ==
  /\ pc = "loop" /\ final_sales = <<>>
  /\ pc' = "done"
  /\ trades' = <<>>
  /\ UNCHANGED <<walletVars, exportVars, formatVars, reportVars>>
  /\ UNCHANGED <<returned, wallets, denomination, trades_by_gained,
                 final_sales, realizations, branch>>

\* final_sales is empty: the while loop ends and realizations is returned
Return ==
  /\ pc = "loop" /\ final_sales = <<>>
  /\ pc' = "done"
  /\ UNCHANGED <<walletVars, exportVars, formatVars, reportVars>>
  /\ UNCHANGED <<returned, wallets, trades, denomination, trades_by_gained,
                 final_sales, realizations, branch>>

\* realizations has returned and is called a second time with the same
\* denomination, on a ledger of a test or scenario or on one shorter than
\* MaxTrades
RealizationsAgain ==
  /\ pc = "done" /\ returned = None
  /\ Len(trades) < MaxTrades \/ ~IsGeneric(trades)
  /\ LET organized == organize_trades(trades, denomination) IN
       /\ trades_by_gained' = organized[1]
       /\ final_sales' = organized[2]
  /\ returned' = Some(realizations)
  /\ realizations' = <<>>
  /\ branch' = "none"
  /\ pc' = "loop"
  /\ UNCHANGED <<walletVars, exportVars, formatVars, reportVars>>
  /\ UNCHANGED <<wallets, trades, denomination>>

\* one step of the while loop
Loop == NoQueue \/ EmptyQueue \/ CaseA \/ CaseBRealize \/ CaseBRequeue \/ Return

Next ==
  \/ AddTrade
  \/ RealizationsCall
  \/ NoQueue
  \/ EmptyQueue
  \/ CaseA
  \/ CaseBRealize
  \/ CaseBRequeue
  \/ Return
  \/ RealizationsAgain

Spec == Init /\ [][Next]_vars

(***************************************************************************)
(* A wallet on its own: add_lot and sell called in any order.              *)
(***************************************************************************)
\* Wallet::add_lot
AddLot ==
  /\ \E c \in NextCalls(calls) :
       /\ c.op = "add_lot"
       /\ wallet' = add_lot(wallet, c.amount, c.unit_cost, c.date)
       /\ calls' = Append(calls, c)
       /\ last' = Some([call |-> c, before |-> wallet, sale |-> None])
  /\ UNCHANGED <<engineVars, exportVars, formatVars, reportVars>>

\* Wallet::sell
Sell ==
  /\ \E c \in NextCalls(calls) :
       /\ c.op = "sell"
       /\ LET sold == WalletSell(wallet, c.amount) IN
            /\ wallet' = sold.wallet
            /\ last' = Some([call |-> c, before |-> wallet,
                             sale |-> Some(sold.sale)])
       /\ calls' = Append(calls, c)
  /\ UNCHANGED <<engineVars, exportVars, formatVars, reportVars>>

WalletNext == AddLot \/ Sell

WalletSpec == Init /\ [][WalletNext]_vars

(***************************************************************************)
(* Transaction (src/src/types.rs) and export (src/src/export.rs).  Of the  *)
(* fields of a Transaction the ordering reads created_at only; id tells    *)
(* the transactions apart and is here the place the transaction comes      *)
(* from: <<v, k>> for the k-th transaction of the v-th vector collected.   *)
(* A row written is given as the transaction it was made from.             *)
(***************************************************************************)
Transaction(id, created_at) == [id |-> id, created_at |-> created_at]

\* impl PartialOrd for Transaction
partial_cmp(self, other) ==
  IF self.created_at # None /\ other.created_at # None
  THEN Some(IF self.created_at[1] < other.created_at[1] THEN "Less"
            ELSE IF self.created_at[1] > other.created_at[1] THEN "Greater"
            ELSE "Equal")
  ELSE Some("Equal")

\* impl Ord for Transaction
cmp(self, other) == partial_cmp(self, other)[1]

\* itertools::kmerge keeps a heap of the vectors not yet exhausted, HeadTail
\* values, here the rest of each vector with its head first; it compares
\* two of them by a.head < b.head
less_than(a, b) == partial_cmp(a[1], b[1]) = Some("Less")

Swap(v, i, j) == [v EXCEPT ![i] = v[j], ![j] = v[i]]

\* sift_down of kmerge, positions counted from 1
RECURSIVE sift_down(_, _)
sift_down(heap, pos) ==
  LET child == 2 * pos
      right == child + 1
  IN IF child > Len(heap) THEN heap
     ELSE LET smaller == IF right <= Len(heap)
                            /\ less_than(heap[right], heap[child])
                         THEN right ELSE child
          IN IF ~less_than(heap[smaller], heap[pos]) THEN heap
             ELSE sift_down(Swap(heap, pos, smaller), smaller)

\* heapify of kmerge: sift_down from the middle of the heap back to its top
RECURSIVE HeapifyFrom(_, _)
HeapifyFrom(heap, i) ==
  IF i = 0 THEN heap ELSE HeapifyFrom(sift_down(heap, i), i - 1)

heapify(heap) == HeapifyFrom(heap, Len(heap) \div 2)

\* Vec::swap_remove(0)
swap_remove_first(heap) ==
  [i \in 1..(Len(heap) - 1) |-> IF i = 1 THEN heap[Len(heap)] ELSE heap[i]]

\* KMerge::next until the heap is empty: the head of the top of the heap is
\* the next item; the top advances, or is removed when it has no more
RECURSIVE KMergeNext(_, _)
KMergeNext(heap, out) ==
  IF heap = <<>> THEN out
  ELSE LET advanced == IF Len(heap[1]) > 1 THEN [heap EXCEPT ![1] = Tail(@)]
                       ELSE swap_remove_first(heap)
       IN KMergeNext(sift_down(advanced, 1), Append(out, heap[1][1]))

\* itertools::kmerge(exchange_transactions)
kmerge(vectors) ==
  KMergeNext(heapify(SelectSeq(vectors, LAMBDA v : v # <<>>)), <<>>)

\* Itertools::sorted is Vec::sort, which sorts a vector this short by
\* insertion.  The standard library has done so in two ways: inserting each
\* element, from the second on, leftwards into the sorted part before it ...
RECURSIVE InsertTail(_, _)
InsertTail(v, i) ==
  IF i > 1 /\ cmp(v[i], v[i - 1]) = "Less"
  THEN InsertTail(Swap(v, i, i - 1), i - 1) ELSE v

RECURSIVE SortShiftLeft(_, _)
SortShiftLeft(v, i) ==
  IF i > Len(v) THEN v ELSE SortShiftLeft(InsertTail(v, i), i + 1)

\* ... or inserting each element, from the last but one back, rightwards
\* into the sorted part after it
RECURSIVE InsertHead(_, _)
InsertHead(v, i) ==
  IF i < Len(v) /\ cmp(v[i + 1], v[i]) = "Less"
  THEN InsertHead(Swap(v, i, i + 1), i + 1) ELSE v

RECURSIVE SortInsertHeads(_, _)
SortInsertHeads(v, i) ==
  IF i < 1 THEN v ELSE SortInsertHeads(InsertHead(v, i), i - 1)

\* the vectors .sorted() can give; they are one when cmp orders v
sorted(v) == {SortShiftLeft(v, 2), SortInsertHeads(v, Len(v) - 1)}

\* the values of Transaction.created_at
Stamps == {None} \cup {Some(t) : t \in 1..MaxStamp}

\* the vectors of at most n transactions an adapter can return as the v-th
\* vector, in any order of their timestamps
Vectors(v, n) ==
  UNION {{[k \in 1..len |-> Transaction(<<v, k>>, c[k])] :
            c \in [1..len -> Stamps]} : len \in 0..n}

RECURSIVE Rows(_)
Rows(vectors) ==
  IF vectors = <<>> THEN 0 ELSE Len(vectors[1]) + Rows(Tail(vectors))

\* export is called: exchange_transactions.push(config.transactions())
ExportCall ==
  /\ export_pc = "start"
  /\ \E v \in Vectors(1, MaxRows) : exchange_transactions' = << v >>
  /\ export_pc' = "exchanges"
  /\ UNCHANGED <<written, engineVars, walletVars, formatVars, reportVars>>

\* the adapter of the next exchange returns Ok(vector), or the exchange needs
\* accounts and there are none: the vector is pushed
AdapterOk ==
  /\ export_pc = "exchanges"
  /\ Len(exchange_transactions) < MaxVectors
  /\ \E v \in Vectors(Len(exchange_transactions) + 1,
                       MaxRows - Rows(exchange_transactions)) :
       exchange_transactions' = Append(exchange_transactions, v)
  /\ UNCHANGED <<export_pc, written, engineVars, walletVars, formatVars, reportVars>>

\* the adapter of the next exchange returns Err: the ? operator returns it
\* from export
AdapterErr ==
  /\ export_pc = "exchanges"
  /\ Len(exchange_transactions) < MaxVectors
  /\ export_pc' = "err"
  /\ UNCHANGED <<exchange_transactions, written, engineVars, walletVars,
                 formatVars, reportVars>>

\* no exchange is left: the header is written, then one row for each
\* transaction of kmerge(exchange_transactions).sorted()
WriteRecords ==
  /\ export_pc = "exchanges"
  /\ \E rows \in sorted(kmerge(exchange_transactions)) :
       written' = Some(rows)
  /\ export_pc' = "ok"
  /\ UNCHANGED <<exchange_transactions, engineVars, walletVars, formatVars, reportVars>>

ExportNext == ExportCall \/ AdapterOk \/ AdapterErr \/ WriteRecords

ExportSpec == Init /\ [][ExportNext]_vars

(***************************************************************************)
(* Formatting and parsing of amounts (src/src/types.rs).  A string is the  *)
(* sequence of its characters.                                             *)
(***************************************************************************)
DigitChar(d) == <<"0", "1", "2", "3", "4", "5", "6", "7", "8", "9">>[d + 1]

IsDigit(c) == c \in {DigitChar(d) : d \in 0..9}

DigitValue(c) == CHOOSE d \in 0..9 : DigitChar(d) = c

Repeat(c, k) == [i \in 1..k |-> c]

\* BigInt::to_str_radix(10) of n >= 0
RECURSIVE to_str_radix(_)
to_str_radix(n) ==
  IF n < 10 THEN << DigitChar(n) >>
  ELSE Append(to_str_radix(n \div 10), DigitChar(n % 10))

\* impl Display for BigDecimal with a precision, format!("{:.4}", a): the
\* digits of int_val split at the decimal point, the digits after it
\* filled with zeros or cut to the precision, and the sign.  (The model's
\* decimals have no negative scale, so Display's case for one is left out.)
Display(a, precision) ==
  LET abs_int == to_str_radix(Abs(a[1]))
      scale == a[2]
      before == IF scale >= Len(abs_int) THEN << "0" >>
                ELSE SubSeq(abs_int, 1, Len(abs_int) - scale)
      digits_after == IF scale >= Len(abs_int)
                      THEN Repeat("0", scale - Len(abs_int)) \o abs_int
                      ELSE SubSeq(abs_int, Len(abs_int) - scale + 1, Len(abs_int))
      after == IF Len(digits_after) < precision
               THEN digits_after \o Repeat("0", precision - Len(digits_after))
               ELSE SubSeq(digits_after, 1, precision)
      complete_without_sign == IF after # <<>> THEN before \o << "." >> \o after
                               ELSE before
  IN IF a[1] < 0 THEN << "-" >> \o complete_without_sign
     ELSE complete_without_sign

\* BigDecimal::abs
DecAbs(a) == <<Abs(a[1]), a[2]>>

\* format_usd_amount with the $ before the parentheses
format_usd_amount_dollar_first(amount) ==
  IF DecLt(amount, Zero)
  THEN << "$", "(" >> \o Display(DecAbs(amount), 4) \o << ")" >>
  ELSE << "$" >> \o Display(amount, 4)

format_usd_amount(amount) ==
  IF DecLt(amount, Zero)
  THEN << "(", "$" >> \o Display(DecAbs(amount), 4) \o << ")" >>
  ELSE << "$" >> \o Display(amount, 4)

format_amount(amount) ==
  IF DecLt(amount, Zero)
  THEN << "(" >> \o Display(DecAbs(amount), 4) \o << ")" >>
  ELSE Display(amount, 4)

\* Result
Ok(value) == [ok |-> TRUE, value |-> value]
Err == [ok |-> FALSE]

\* str::trim_start_matches(c)
RECURSIVE trim_start_matches(_, _)
trim_start_matches(s, c) ==
  IF s # <<>> /\ s[1] = c THEN trim_start_matches(Tail(s), c) ELSE s

RECURSIVE DigitsValue(_)
DigitsValue(s) ==
  IF s = <<>> THEN 0
  ELSE 10 * DigitsValue(SubSeq(s, 1, Len(s) - 1)) + DigitValue(s[Len(s)])

\* BigInt::from_str_radix(s, 10): a sign or none, then digits, one at least
ParseBigInt(s) ==
  LET signed == s # <<>> /\ s[1] \in {"-", "+"}
      digits == IF signed THEN Tail(s) ELSE s
  IN IF digits = <<>> \/ \E i \in 1..Len(digits) : ~IsDigit(digits[i])
     THEN Err
     ELSE Ok(IF signed /\ s[1] = "-" THEN -DigitsValue(digits)
             ELSE DigitsValue(digits))

\* str::parse::<BigDecimal>, for strings without exponent: the digits on
\* the two sides of the first point, put together, are the int_val, and the
\* number of characters after that point is the scale
ParseBigDecimal(s) ==
  IF s = <<>> THEN Err
  ELSE LET points == {i \in 1..Len(s) : s[i] = "."}
           loc == IF points = {} THEN 0
                  ELSE CHOOSE i \in points : \A j \in points : i <= j
           digits == IF loc = 0 THEN s
                     ELSE SubSeq(s, 1, loc - 1) \o SubSeq(s, loc + 1, Len(s))
           scale == IF loc = 0 THEN 0 ELSE Len(s) - loc
           big_int == ParseBigInt(digits)
       IN IF big_int.ok THEN Ok(Norm(big_int.value, scale)) ELSE Err

\* parse_amount without the multiplication by -1
parse_amount_unsigned(input) ==
  IF Len(input) >= 2 /\ input[1] = "(" /\ input[Len(input)] = ")"
  THEN ParseBigDecimal(trim_start_matches(
         SubSeq(input, 2, Len(input) - 1), "$"))
  ELSE ParseBigDecimal(trim_start_matches(input, "$"))

parse_amount(input) ==
  IF Len(input) >= 2 /\ input[1] = "(" /\ input[Len(input)] = ")"
  THEN LET amount == SubSeq(input, 2, Len(input) - 1)
           result == ParseBigDecimal(trim_start_matches(amount, "$"))
       IN IF result.ok THEN Ok(DecMul(result.value, Dec(-1))) ELSE Err
  ELSE ParseBigDecimal(trim_start_matches(input, "$"))

\* the amounts given to the formatters
FormatAmounts ==
  {Norm(n, s) : n \in (-MaxMantissa)..MaxMantissa, s \in 0..MaxScale}

\* the strings of test_parse_amount
TestInputs ==
  { << "0" >>, << "0", ".", "0" >>, << "1", ".", "1" >>,
    << "(", "1", ".", "0", ")" >>, << "$", "1", ".", "0" >>,
    << "(", "$", "3", ".", "1", "4", "2", "7", ")" >>, <<>> }

\* export writes an amount or a rate: format_amount
FormatAmount ==
  /\ formatted = None
  /\ \E x \in FormatAmounts :
       formatted' = Some([by |-> "format_amount", amount |-> Some(x),
                          text |-> format_amount(x)])
  /\ parsed' = None
  /\ UNCHANGED <<engineVars, walletVars, exportVars, reportVars>>

\* export writes a usd_rate or a usd_amount: format_usd_amount
FormatUsdAmount ==
  /\ formatted = None
  /\ \E x \in FormatAmounts :
       formatted' = Some([by |-> "format_usd_amount", amount |-> Some(x),
                          text |-> format_usd_amount(x)])
  /\ parsed' = None
  /\ UNCHANGED <<engineVars, walletVars, exportVars, reportVars>>

\* the characters of the other strings given to parse_amount
InputChars == {"$", "(", ")", "-", ".", "1"}

\* every string of at most MaxInputLen of these characters
InputStrings == UNION {[1..n -> InputChars] : n \in 0..MaxInputLen}

\* a string that comes from elsewhere
Input ==
  /\ formatted = None
  /\ \E s \in TestInputs \cup InputStrings :
       formatted' = Some([by |-> "input", amount |-> None, text |-> s])
  /\ parsed' = None
  /\ UNCHANGED <<engineVars, walletVars, exportVars, reportVars>>

\* deserialize_amount: the string is read back with parse_amount
DeserializeAmount ==
  /\ formatted # None
  /\ parsed = None
  /\ parsed' = Some(parse_amount(formatted[1].text))
  /\ UNCHANGED <<formatted, engineVars, walletVars, exportVars, reportVars>>

FormatNext == FormatAmount \/ FormatUsdAmount \/ Input \/ DeserializeAmount

FormatSpec == Init /\ [][FormatNext]_vars

(***************************************************************************)
(* report (report.rs): the records of the input are the rows export wrote, *)
(* or rows with a field that is not an amount.  A record is its token, its *)
(* Amount, USD Rate and USD Amount fields as text, and its Created At      *)
(* field, of which the model keeps the year: the sort and the year test    *)
(* read nothing else of it.                                                *)
(***************************************************************************)
\* report(2018) is the call of main
year == 2018
Years == {2017, 2018, 2019}
Tokens == {"BTC", "USD"}

\* amounts in units of 0.0001, of both signs and zero
ItemAmounts == {Norm(n, 4) : n \in (-MaxItemAmount)..MaxItemAmount}

\* the rate of every record: $0.5000 for one token
RateText == format_usd_amount(<<5, 1>>)
\* the USD amount of every record: $3.0000
UsdText == format_usd_amount(Dec(3))
\* an empty field, which parse_amount rejects
NoText == <<>>

StringRecord(token, amount, usd_rate, usd_amount, created_at) ==
  [token |-> token, amount |-> amount, usd_rate |-> usd_rate,
   usd_amount |-> usd_amount, created_at |-> created_at]

\* the records of one token and year: what export writes for the amounts,
\* and a purchase and a sale with one field empty
Records(token, created_at) ==
  {StringRecord(token, format_amount(a), RateText, UsdText, created_at) :
     a \in ItemAmounts}
  \cup {StringRecord(token, NoText, RateText, UsdText, created_at),
        StringRecord(token, format_amount(<<1, 4>>), NoText, UsdText,
                     created_at),
        StringRecord(token, format_amount(<<1, 4>>), RateText, NoText,
                     created_at),
        StringRecord(token, format_amount(<<-1, 4>>), RateText, NoText,
                     created_at)}

AllRecords == UNION {Records(t, y) : t \in Tokens, y \in Years}

\* line_items.sort_by on the Created At field: a stable sort
RECURSIVE InsertRecord(_, _)
InsertRecord(sorted_records, r) ==
  IF sorted_records = <<>> THEN <<r>>
  ELSE IF r.created_at < sorted_records[Len(sorted_records)].created_at
  THEN Append(InsertRecord(SubSeq(sorted_records, 1, Len(sorted_records) - 1),
                           r),
              sorted_records[Len(sorted_records)])
  ELSE Append(sorted_records, r)

RECURSIVE SortFrom(_, _, _)
SortFrom(records, i, acc) ==
  IF i > Len(records) THEN acc
  ELSE SortFrom(records, i + 1, InsertRecord(acc, records[i]))

\* line_items left in the order of the input
sort_by_nothing(records) == records

sort_by(records) == SortFrom(records, 1, <<>>)

\* a record written by report
Written(description, date_acquired, date_sold, proceeds, cost_basis, gain) ==
  [description |-> description, date_acquired |-> date_acquired,
   date_sold |-> date_sold, proceeds |-> proceeds, cost_basis |-> cost_basis,
   gain |-> gain]

HeaderRecord ==
  Written("Description of property", <<"Date acquired">>,
          <<"Date sold or disposed of">>, <<"Proceeds">>, <<"Cost basis">>,
          <<"Gain or (loss)">>)

\* the Wallet of report.rs: sell as in wallet.rs, on the lots alone
ReportSell(lots, amount) ==
  LET r == SellLots(lots, 1,
             [lots |-> lots, total_cost |-> Zero, lots_consumed |-> 0,
              amount_to_consume |-> amount])
  IN [lots |-> SubSeq(r.lots, r.lots_consumed + 1, Len(r.lots)),
      sale |-> [cost_basis |-> r.total_cost,
                date_of_purchase |->
                  IF lots = <<>> THEN None
                  ELSE Some(lots[1].date_of_purchase)]]

\* what the body of the loop writes for a sale: a line item when the token
\* is not USD and the sale is of the year of the report
LineItem(line_item, sale) ==
  LET proceeds == DecAbs(parse_amount(line_item.usd_amount).value)
  IN IF line_item.token # "USD" /\ line_item.created_at = year
     THEN << Written(line_item.token, sale.date_of_purchase,
                     Some(line_item.created_at), format_usd_amount(proceeds),
                     format_usd_amount(sale.cost_basis),
                     format_usd_amount(DecSub(proceeds, sale.cost_basis))) >>
     ELSE <<>>

\* report is called: the header is written, the input read and sorted
ReportCall ==
  /\ report_pc = "start"
  /\ \E n \in 0..MaxItems : \E records \in [1..n -> AllRecords] :
       line_items' = sort_by(records)
  /\ report_rows' = << HeaderRecord >>
  /\ report_pc' = "loop"
  /\ UNCHANGED <<item, report_wallets, totals>>
  /\ UNCHANGED <<engineVars, walletVars, exportVars, formatVars>>

\* the loop has a record to read
AtLineItem == report_pc = "loop" /\ item <= Len(line_items)

\* parse_amount(..).unwrap() on a field that is not an amount: the Amount
\* or the USD Rate of any record, the USD Amount of a record that is a sale
\* of a year not after the year of the report
LineItemPanics ==
  /\ AtLineItem
  /\ LET line_item == line_items[item]
         amount == parse_amount(line_item.amount)
         rate == parse_amount(line_item.usd_rate)
     IN \/ ~amount.ok
        \/ ~rate.ok
        \/ /\ amount.ok /\ rate.ok
           /\ line_item.created_at <= year
           /\ ~DecLt(Zero, amount.value)
           /\ ~parse_amount(line_item.usd_amount).ok
  /\ report_pc' = "panic"
  /\ UNCHANGED <<line_items, item, report_wallets, totals, report_rows>>
  /\ UNCHANGED <<engineVars, walletVars, exportVars, formatVars>>

\* year_of_sale > year: break
LineItemBreaks ==
  /\ AtLineItem
  /\ LET line_item == line_items[item] IN
       /\ parse_amount(line_item.amount).ok
       /\ parse_amount(line_item.usd_rate).ok
       /\ line_item.created_at > year
  /\ report_pc' = "total"
  /\ UNCHANGED <<line_items, item, report_wallets, totals, report_rows>>
  /\ UNCHANGED <<engineVars, walletVars, exportVars, formatVars>>

\* amount > 0: a lot is added to the wallet of the token, and continue
LineItemBought ==
  /\ AtLineItem
  /\ LET line_item == line_items[item]
         amount == parse_amount(line_item.amount)
         rate == parse_amount(line_item.usd_rate)
     IN /\ amount.ok /\ rate.ok
        /\ line_item.created_at <= year
        /\ DecLt(Zero, amount.value)
        /\ report_wallets' =
             [OrInsert(report_wallets, line_item.token, <<>>)
                EXCEPT ![line_item.token] =
                  Append(@, Lot(amount.value, rate.value,
                                line_item.created_at))]
  /\ item' = item + 1
  /\ UNCHANGED <<line_items, totals, report_rows, report_pc>>
  /\ UNCHANGED <<engineVars, walletVars, exportVars, formatVars>>

\* otherwise: the wallet sells amount.abs(); for a token other than USD in
\* the year of the report the sale is added to the totals and written
LineItemSold ==
  /\ AtLineItem
  /\ LET line_item == line_items[item]
         amount == parse_amount(line_item.amount)
         rate == parse_amount(line_item.usd_rate)
         usd_amount == parse_amount(line_item.usd_amount)
     IN /\ amount.ok /\ rate.ok
        /\ line_item.created_at <= year
        /\ ~DecLt(Zero, amount.value)
        /\ usd_amount.ok
        /\ LET with_wallet == OrInsert(report_wallets, line_item.token, <<>>)
               sold == ReportSell(with_wallet[line_item.token],
                                  DecAbs(amount.value))
               proceeds == DecAbs(usd_amount.value)
               gain == DecSub(proceeds, sold.sale.cost_basis)
               written_now == LineItem(line_item, sold.sale)
           IN /\ report_wallets' =
                   [with_wallet EXCEPT ![line_item.token] = sold.lots]
              /\ report_rows' = report_rows \o written_now
              /\ totals' =
                   IF written_now = <<>> THEN totals
                   ELSE [proceeds |-> DecAdd(totals.proceeds, proceeds),
                         cost |-> DecAdd(totals.cost, sold.sale.cost_basis),
                         gain |-> DecAdd(totals.gain, gain)]
  /\ item' = item + 1
  /\ UNCHANGED <<line_items, report_pc>>
  /\ UNCHANGED <<engineVars, walletVars, exportVars, formatVars>>

\* after the loop: the Total record is written and report returns Ok
WriteTotal ==
  /\ \/ report_pc = "loop" /\ item > Len(line_items)
     \/ report_pc = "total"
  /\ report_rows' =
       Append(report_rows,
              Written("Total", None, None, format_usd_amount(totals.proceeds),
                      format_usd_amount(totals.cost),
                      format_usd_amount(totals.gain)))
  /\ report_pc' = "ok"
  /\ UNCHANGED <<line_items, item, report_wallets, totals>>
  /\ UNCHANGED <<engineVars, walletVars, exportVars, formatVars>>

ReportNext ==
  \/ ReportCall
  \/ LineItemPanics
  \/ LineItemBreaks
  \/ LineItemBought
  \/ LineItemSold
  \/ WriteTotal

ReportSpec == Init /\ [][ReportNext]_vars

\* realizations is synchronous: once called, its loop keeps running
FairSpec == Spec /\ WF_vars(Loop)

(***************************************************************************)
(* Properties.                                                             *)
(***************************************************************************)
Range(seq) == {seq[i] : i \in 1..Len(seq)}

RECURSIVE SumProceeds(_)
SumProceeds(rs) ==
  IF rs = <<>> THEN Zero ELSE DecAdd(rs[1].proceeds, SumProceeds(Tail(rs)))

\* the sum of gained.amount over the trades of ts that gain the symbol sym
RECURSIVE SumGained(_, _)
SumGained(ts, sym) ==
  IF ts = <<>> THEN Zero
  ELSE DecAdd(IF ts[1].gained.symbol = sym THEN ts[1].gained.amount ELSE Zero,
              SumGained(Tail(ts), sym))

Covered(r) == r.acquired_when # None
IsUncovered(r) ==
  r.acquired_when = None /\ r.cost_basis = Zero /\ r.gain = r.proceeds

\* C1: every realization pushed so far, by either split case or as an
\* uncovered realization, has gain = proceeds - cost_basis
C1_GainIsProceedsMinusBasis ==
  \A r \in Range(realizations) : r.gain = DecSub(r.proceeds, r.cost_basis)

\* a finished run that pushed a case A, a case B and an uncovered realization
C1_Witness ==
  /\ pc = "done" /\ branch = "uncovered" /\ trades = LedgerSplits
  /\ denomination = USD
  /\ Len(realizations) = 3
  /\ realizations[1].cost_basis = Dec(500) /\ realizations[1].gain = Dec(400)
  /\ realizations[2].cost_basis = Dec(500) /\ realizations[2].gain = Dec(1000)
  /\ realizations[3].acquired_when = None /\ realizations[3].gain = Dec(1500)

\* no trade of ts offers the symbol it gains
Proper(ts) == \A i \in 1..Len(ts) : ts[i].offered.symbol # ts[i].gained.symbol

\* C2: when realizations returns, the proceeds of its realizations add up to
\* the gained amounts of the ledger trades that gain the denomination (on
\* ledgers without same-symbol trades, which the engine is to ignore)
C2_ProceedsConserved ==
  (pc = "done" /\ Proper(trades)) =>
    SumProceeds(realizations) = SumGained(trades, denomination)

Halving ==
  /\ pc = "loop" /\ final_sales # <<>>
  /\ Head(final_sales).offered.symbol \in DOMAIN trades_by_gained
  /\ trades_by_gained[Head(final_sales).offered.symbol] # <<>>
  /\ LET trade == Head(final_sales)
         matching == Head(trades_by_gained[trade.offered.symbol])
     IN /\ matching.offered.symbol # denomination
        /\ trade.offered.amount = DecMul(Dec(2), matching.gained.amount)
        /\ trade.offered.amount = DecMul(Dec(2), trade.gained.amount)

\* Every step of the loop taken from that shape leads back to it, with the
\* amounts halved: no number of iterations empties final_sales.
HalvingRecurs == [][Halving => Halving']_vars

\* the shape after at least one iteration
HalvingReached == Halving /\ branch = "case_b_requeue" /\ Proper(trades)

Sorted(ts) == \A i, j \in 1..Len(ts) : i <= j => ts[i].when <= ts[j].when

\* C4: on a ledger in timestamp order no realization is acquired after it is
\* disposed
C4_AcquiredBeforeDisposed ==
  (Sorted(trades) /\ Proper(trades)) =>
    \A r \in Range(realizations) :
      Covered(r) => r.acquired_when[1] <= r.disposed_when

\* C5: the chain USD->USDT x3, USDT->ETH, ETH->BTC, BTC->USD is traced back to
\* the two USD-funded lots of USDT it consumes
C5_ChainTraced ==
  (pc = "done" /\ trades = LedgerChain /\ denomination = USD) =>
    realizations =
      << Realization("BTC sold via BTC-USD pair", Some(20160101), 20200102,
                     Dec(2500), Dec(100), Dec(2400)),
         Realization("BTC sold via BTC-USD pair", Some(20160102), 20200102,
                     Dec(1500), Dec(60), Dec(1440)) >>

\* the ledger is D->X, then X->Y trading all of the X, then Y->D selling all
\* of the Y
ExchangeThenLiquidation(ts, d) ==
  /\ Len(ts) = 3
  /\ ts[1].offered.symbol = d
  /\ ts[1].gained = ts[2].offered
  /\ ts[2].gained = ts[3].offered
  /\ ts[3].gained.symbol = d
  /\ Cardinality({d, ts[1].gained.symbol, ts[2].gained.symbol}) = 3

\* C6: D->X, X->Y, Y->D gives exactly one realization, acquired at the D->X
\* purchase, with the proceeds of the sale and the cost of the purchase
C6_ExchangeOneRealization ==
  (pc = "done" /\ ExchangeThenLiquidation(trades, denomination)) =>
    realizations =
      << Realization(Description(trades[3].offered.symbol, denomination),
                     Some(trades[1].when), trades[3].when,
                     trades[3].gained.amount, trades[1].offered.amount,
                     DecSub(trades[3].gained.amount, trades[1].offered.amount)) >>

\* C7: buy BTC 2 for USD 1000, trade BTC 1 for USDT 2000, sell USDT 1000 for
\* USD 2000 gives one realization for USDT with basis 500 and gain 1500
C7_PartialLiquidationBasis ==
  (pc = "done" /\ trades = LedgerExchangePartial /\ denomination = USD) =>
    /\ Len(realizations) = 1
    /\ realizations[1].description = "USDT sold via USDT-USD pair"
    /\ realizations[1].proceeds = Dec(2000)
    /\ realizations[1].cost_basis = Dec(500)
    /\ realizations[1].gain = Dec(1500)

\* the last trade of ts is the only one gaining d, and it offers more of a
\* symbol than the other trades, which all pay for it in another symbol,
\* have acquired
Oversold(ts, d) ==
  /\ Len(ts) >= 2
  /\ LET sale == ts[Len(ts)]
         x == sale.offered.symbol
     IN /\ sale.gained.symbol = d /\ x # d
        /\ \A i \in 1..(Len(ts) - 1) :
             ts[i].gained.symbol # d /\ ts[i].offered.symbol # x
        /\ \E i \in 1..(Len(ts) - 1) : ts[i].gained.symbol = x
        /\ DecLt(SumGained(SubSeq(ts, 1, Len(ts) - 1), x), sale.offered.amount)

\* C8: an oversold sale ends with one uncovered realization for the part of
\* the proceeds the covered realizations before it leave over
C8_OversoldRemainderUncovered ==
  (pc = "done" /\ Oversold(trades, denomination)) =>
    /\ realizations # <<>>
    /\ LET n == Len(realizations) IN
       /\ IsUncovered(realizations[n])
       /\ \A i \in 1..(n - 1) : Covered(realizations[i])
       /\ SumProceeds(realizations) = trades[Len(trades)].gained.amount

\* the sales to d of ts, none of a symbol that a trade of ts gains
NeverAcquired(ts, d) ==
  LET organized == organize_trades(ts, d) IN
  \A s \in Range(organized[2]) :
    s.offered.symbol # d /\ s.offered.symbol \notin DOMAIN organized[1]

\* C9: a sale of a symbol the ledger never acquires yields an uncovered
\* realization with the sale's gained amount as proceeds and gain
C9_NoQueueUncovered ==
  (pc = "done" /\ NeverAcquired(trades, denomination)) =>
    LET sales == organize_trades(trades, denomination)[2] IN
    realizations =
      [i \in 1..Len(sales) |->
         Realization(Description(sales[i].offered.symbol, denomination),
                     None, sales[i].when, sales[i].gained.amount, Zero,
                     sales[i].gained.amount)]

\* C10: realizations returns only when every entry of final_sales has been
\* processed, also after an uncovered realization
C10_ContinuesAfterUncovered ==
  (pc = "done" /\ branch = "uncovered") => final_sales = <<>>

\* ts is n purchases of one asset paid for in d, then one sale to d of
\* exactly what they acquired
LotsThenSale(ts, d) ==
  /\ Len(ts) >= 2
  /\ LET sale == ts[Len(ts)]
         x == sale.offered.symbol
         lots == SubSeq(ts, 1, Len(ts) - 1)
     IN /\ x # d /\ sale.gained.symbol = d
        /\ \A i \in 1..Len(lots) :
             lots[i].offered.symbol = d /\ lots[i].gained.symbol = x
        /\ sale.offered.amount = SumGained(lots, x)

\* C11: n purchases paid for in D and a sale of their total yield n
\* realizations, the i-th acquired at the i-th purchase, with its cost as
\* basis and with the share (lot amount / amount sold) of the sale's proceeds
C11_OneRealizationPerLot ==
  (pc = "done" /\ LotsThenSale(trades, denomination)) =>
    LET sale == trades[Len(trades)]
        n == Len(trades) - 1
    IN /\ Len(realizations) = n
       /\ \A i \in 1..n :
            /\ realizations[i].acquired_when = Some(trades[i].when)
            /\ realizations[i].disposed_when = sale.when
            /\ realizations[i].cost_basis = trades[i].offered.amount
            /\ DecMul(realizations[i].proceeds, sale.offered.amount) =
                 DecMul(sale.gained.amount, trades[i].gained.amount)
            /\ realizations[i].gain =
                 DecSub(realizations[i].proceeds, realizations[i].cost_basis)

\* the sum of offered.amount over the trades of ts
RECURSIVE SumOffered(_)
SumOffered(ts) ==
  IF ts = <<>> THEN Zero
  ELSE DecAdd(ts[1].offered.amount, SumOffered(Tail(ts)))

RECURSIVE SumBasis(_)
SumBasis(rs) ==
  IF rs = <<>> THEN Zero ELSE DecAdd(rs[1].cost_basis, SumBasis(Tail(rs)))

\* what is left of the lot ts[1] before the sale ts[i]
LeftBefore(ts, i) ==
  DecSub(ts[1].gained.amount, SumOffered(SubSeq(ts, 2, i - 1)))

\* ts is one purchase paid for in d, then sales to d that each take less than
\* what is left of it
LotThenPartialSales(ts, d) ==
  /\ Len(ts) >= 2
  /\ ts[1].offered.symbol = d /\ ts[1].gained.symbol # d
  /\ \A i \in 2..Len(ts) :
       /\ ts[i].offered.symbol = ts[1].gained.symbol
       /\ ts[i].gained.symbol = d
       /\ DecLt(ts[i].offered.amount, LeftBefore(ts, i))

\* the quotients (amount sold / amount left) of the sales up to ts[i] are
\* finite decimals
ExactShares(ts, i) ==
  \A j \in 2..i :
    DecMul(DecDiv(ts[j].offered.amount, LeftBefore(ts, j)), LeftBefore(ts, j))
      = ts[j].offered.amount

\* each partial sale gives one realization with its full proceeds, acquired
\* at the purchase
OneRealizationPerPartialSale ==
  /\ Len(realizations) = Len(trades) - 1
  /\ \A i \in 2..Len(trades) :
       /\ realizations[i - 1].proceeds = trades[i].gained.amount
       /\ realizations[i - 1].acquired_when = Some(trades[1].when)
       /\ realizations[i - 1].disposed_when = trades[i].when

\* the remainder of the lot is at the front of its queue
RemainderAvailable ==
  LET x == trades[1].gained.symbol IN
  /\ x \in DOMAIN trades_by_gained
  /\ Len(trades_by_gained[x]) = 1
  /\ trades_by_gained[x][1].when = trades[1].when
  /\ trades_by_gained[x][1].gained.amount = LeftBefore(trades, Len(trades) + 1)

\* C12 as stated: every partial sale of s of a lot of x bought for c has
\* cost_basis = c * s / x
C12_PartialSaleBasis ==
  (pc = "done" /\ LotThenPartialSales(trades, denomination)) =>
    /\ OneRealizationPerPartialSale
    /\ RemainderAvailable
    /\ \A i \in 2..Len(trades) :
         DecMul(realizations[i - 1].cost_basis, trades[1].gained.amount) =
           DecMul(trades[1].offered.amount, trades[i].offered.amount)

\* C12, amended: each partial sale gives one realization with its full
\* proceeds; its cost_basis is c * s / x when the quotients computed so far
\* are finite decimals; the remainder of the lot stays at the front of the
\* queue, and its cost and the cost bases add up to c
C12_PartialSaleBasisRounded ==
  (pc = "done" /\ LotThenPartialSales(trades, denomination)) =>
    /\ OneRealizationPerPartialSale
    /\ RemainderAvailable
    /\ DecAdd(SumBasis(realizations),
              trades_by_gained[trades[1].gained.symbol][1].offered.amount)
         = trades[1].offered.amount
    /\ \A i \in 2..Len(trades) :
         ExactShares(trades, i) =>
           DecMul(realizations[i - 1].cost_basis, trades[1].gained.amount) =
             DecMul(trades[1].offered.amount, trades[i].offered.amount)

\* the partial sales of the test: 0.5 then 0.25 of a lot of 1 bought for 1000
C12_Witness ==
  /\ pc = "done" /\ trades = LedgerPartialSales /\ denomination = USD
  /\ Len(realizations) = 2
  /\ realizations[1].cost_basis = Dec(500)
  /\ realizations[2].cost_basis = Dec(250)
  /\ trades_by_gained[BTC][1].gained.amount = <<25, 2>>

\* the loop is about to match the sale at the front of final_sales with an
\* acquiring trade that was not paid for in the denomination
HopNotFundedInD ==
  /\ pc = "loop" /\ final_sales # <<>>
  /\ Head(final_sales).offered.symbol \in DOMAIN trades_by_gained
  /\ trades_by_gained[Head(final_sales).offered.symbol] # <<>>
  /\ Head(trades_by_gained[Head(final_sales).offered.symbol]).offered.symbol
       # denomination

\* the proceeds of the hop that matches trade with matching
HopProceeds(trade, matching) ==
  IF DecLt(trade.offered.amount, matching.gained.amount)
  THEN trade.gained.amount
  ELSE CaseBProceeds(trade, matching)

\* C13: (on ledgers without same-symbol trades) a hop whose acquiring trade
\* was not paid for in D emits no realization and pushes onto final_sales a work item with the sale's time
\* and originating asset, offering the acquiring trade's offered asset and
\* gaining the hop's proceeds
C13_HopGoesOneBack ==
  [][(HopNotFundedInD /\ Proper(trades)) =>
       LET trade == Head(final_sales)
           matching == Head(trades_by_gained[trade.offered.symbol])
       IN /\ realizations' = realizations
          /\ \E k \in 1..Len(final_sales') :
               /\ final_sales'[k].when = trade.when
               /\ final_sales'[k].original_symbol = trade.original_symbol
               /\ final_sales'[k].offered.symbol = matching.offered.symbol
               /\ final_sales'[k].gained.amount = HopProceeds(trade, matching)
    ]_vars

\* C14: every realization is described as "S sold via S-D pair", S being the
\* symbol offered by a ledger trade that gains D and is disposed at the
\* realization's disposal time; the work items waiting in final_sales carry
\* that symbol too
C14_DescriptionNamesOrigin ==
  pc \in {"loop", "done"} =>
    /\ \A r \in Range(realizations) :
         \E i \in 1..Len(trades) :
           /\ trades[i].gained.symbol = denomination
           /\ trades[i].when = r.disposed_when
           /\ r.description =
                Description(trades[i].offered.symbol, denomination)
    /\ \A s \in Range(final_sales) :
         \E i \in 1..Len(trades) :
           /\ trades[i].gained.symbol = denomination
           /\ trades[i].when = s.when
           /\ s.original_symbol = trades[i].offered.symbol

\* the second realization of the two-lots test comes from a residual of the
\* sale
C14_Witness ==
  /\ pc = "done" /\ trades = LedgerTwoToOne /\ denomination = USD
  /\ Len(realizations) = 2
  /\ realizations[1].description = "BTC sold via BTC-USD pair"
  /\ realizations[2].description = "BTC sold via BTC-USD pair"
  /\ realizations[2].acquired_when = Some(20180101)

\* the trades of ts that gain sym, in the order of ts, as Sale records
SalesGaining(ts, sym) ==
  LET picked == SelectSeq(ts, LAMBDA t : t.gained.symbol = sym)
  IN [i \in 1..Len(picked) |->
        [when |-> picked[i].when, original_symbol |-> picked[i].offered.symbol,
         offered |-> picked[i].offered, gained |-> picked[i].gained]]

RECURSIVE SumLen(_, _)
SumLen(map, keys) ==
  IF keys = {} THEN 0
  ELSE LET k == CHOOSE k \in keys : TRUE
       IN Len(map[k]) + SumLen(map, keys \ {k})

\* realizations has called organize_trades and not yet run an iteration
Organized == pc = "loop" /\ branch = "none"

\* C15: organize_trades puts the trades gaining D in final_sales and every
\* other trade in the queue of the symbol it gains, each once, in ledger
\* order, as a record with the trade's time and amounts and the offered
\* symbol as originating symbol; there is no queue for D
C15_OrganizePartitions ==
  Organized =>
    /\ final_sales = SalesGaining(trades, denomination)
    /\ DOMAIN trades_by_gained =
         {trades[i].gained.symbol : i \in 1..Len(trades)} \ {denomination}
    /\ \A sym \in DOMAIN trades_by_gained :
         trades_by_gained[sym] = SalesGaining(trades, sym)
    /\ Len(final_sales) + SumLen(trades_by_gained, DOMAIN trades_by_gained)
         = Len(trades)

\* the two-lots test organized: both purchases in the BTC queue in ledger
\* order, the sale in final_sales
C15_Witness ==
  /\ Organized /\ trades = LedgerTwoToOne /\ denomination = USD
  /\ Len(trades_by_gained[BTC]) = 2
  /\ trades_by_gained[BTC][1].when = 20170101
  /\ trades_by_gained[BTC][2].when = 20180101
  /\ trades_by_gained[BTC][1].original_symbol = USD
  /\ final_sales = << [when |-> 20200101, original_symbol |-> BTC,
                       offered |-> btc(2), gained |-> usd(4000)] >>

\* the realization r can stem from the sale to D at position i of the ledger
StemsFrom(r, i) ==
  /\ trades[i].gained.symbol = denomination
  /\ trades[i].when = r.disposed_when
  /\ r.description = Description(trades[i].offered.symbol, denomination)

\* the covered realization r of a sale of sym can be acquired by the trade at
\* position i of the ledger
AcquiredBy(r, i) == Covered(r) /\ trades[i].when = r.acquired_when[1]

\* C16: the realizations are in the ledger order of the sales to D they stem
\* from, and those of one sale in the ledger order of the acquiring trades
C16_ProductionOrder ==
  \A j, k \in 1..Len(realizations) :
    j < k =>
      /\ \E a, b \in 1..Len(trades) :
           a <= b /\ StemsFrom(realizations[j], a) /\ StemsFrom(realizations[k], b)
      /\ (/\ realizations[j].disposed_when = realizations[k].disposed_when
          /\ realizations[j].description = realizations[k].description
          /\ Covered(realizations[j]) /\ Covered(realizations[k]))
         => \E a, b \in 1..Len(trades) :
              /\ a <= b
              /\ AcquiredBy(realizations[j], a)
              /\ AcquiredBy(realizations[k], b)

\* two sales over two lots: the realizations of the first sale, lot by lot,
\* then the realization of the second sale
C16_Witness ==
  /\ pc = "done" /\ trades = LedgerTwoSales /\ denomination = USD
  /\ Len(realizations) = 3
  /\ realizations[1].disposed_when = 20200101
  /\ realizations[1].acquired_when = Some(20170101)
  /\ realizations[2].disposed_when = 20200101
  /\ realizations[2].acquired_when = Some(20180101)
  /\ realizations[3].disposed_when = 20200102
  /\ realizations[3].acquired_when = Some(20180101)

\* the ledger ts without its k-th trade
Without(ts, k) == SubSeq(ts, 1, k - 1) \o SubSeq(ts, k + 1, Len(ts))

\* ts[k] offers the symbol it gains, and the other trades of ts are purchases
\* paid for in d followed by the sale to d of what they acquired
SameSymbolAmong(ts, d, k) ==
  /\ k \in 1..Len(ts)
  /\ ts[k].offered.symbol = ts[k].gained.symbol
  /\ LotsThenSale(Without(ts, k), d)
  /\ Len(ts) = 3

\* C17: a same-symbol trade added to a purchase and the sale of what it
\* acquired changes nothing: the result is the one realization of the
\* purchase and the sale alone
C17_SameSymbolNoOp ==
  \A k \in 1..Len(trades) :
    (pc = "done" /\ SameSymbolAmong(trades, denomination, k)) =>
      LET rest == Without(trades, k) IN
      realizations =
        << Realization(Description(rest[2].offered.symbol, denomination),
                       Some(rest[1].when), rest[2].when,
                       rest[2].gained.amount, rest[1].offered.amount,
                       DecSub(rest[2].gained.amount, rest[1].offered.amount)) >>

\* C18: a call of realizations changes neither the trade list nor the
\* wallets, and a second call with the same denomination returns the list
\* the first one returned
C18_NoSideEffects ==
  /\ [][(pc \in {"loop", "done"} \/ pc' = "loop") =>
          (trades' = trades /\ wallets' = wallets)]_vars
  /\ []((pc = "done" /\ returned # None) => realizations = returned[1])

\* the second call on the ledger of the two-lots test has returned
C18_Witness ==
  /\ pc = "done" /\ trades = LedgerTwoToOne /\ denomination = USD
  /\ returned = Some(realizations)
  /\ Len(realizations) = 2

\* the last call on the wallet was a sell
Sold == last # None /\ last[1].call.op = "sell"

RECURSIVE SumAmounts(_)
SumAmounts(lots) ==
  IF lots = <<>> THEN Zero ELSE DecAdd(lots[1].amount, SumAmounts(Tail(lots)))

\* what a sale of amount takes from the i-th lot when every lot before it
\* is taken completely first
Taken(lots, amount, i) ==
  LET before == SumAmounts(SubSeq(lots, 1, i - 1))
      needed == IF DecLt(before, amount) THEN DecSub(amount, before) ELSE Zero
  IN IF DecLt(needed, lots[i].amount) THEN needed ELSE lots[i].amount

RECURSIVE CostOfTaken(_, _, _)
CostOfTaken(lots, amount, i) ==
  IF i > Len(lots) THEN Zero
  ELSE DecAdd(DecMul(Taken(lots, amount, i), lots[i].unit_cost),
              CostOfTaken(lots, amount, i + 1))

\* the lots the sale does not use up, each less what was taken from it: a
\* lot is used up when the sale asks for at least the lots up to and
\* including it
RECURSIVE LotsLeft(_, _, _)
LotsLeft(lots, amount, i) ==
  IF i > Len(lots) THEN <<>>
  ELSE (IF ~DecLt(amount, SumAmounts(SubSeq(lots, 1, i))) THEN <<>>
        ELSE << [lots[i] EXCEPT
                   !.amount = DecSub(@, Taken(lots, amount, i))] >>)
       \o LotsLeft(lots, amount, i + 1)

\* C19: Wallet::sell returns as cost_basis the sum over the lots, in
\* insertion order, of what it takes from each times its unit cost, each lot
\* taken completely before the next is touched, and leaves the lots not
\* taken completely, the last one touched less what was needed
C19_SellOldestFirst ==
  Sold =>
    /\ last[1].sale[1].cost_basis =
         CostOfTaken(last[1].before.lots, last[1].call.amount, 1)
    /\ wallet.lots = LotsLeft(last[1].before.lots, last[1].call.amount, 1)

\* test_wallet_sell: lots 10@1, 10@2, 10@3; the third sale takes the 5 left
\* of the second lot and 5 of the third
C19_Witness ==
  /\ calls = CallsSell
  /\ Sold
  /\ last[1].sale[1].cost_basis = Dec(25)
  /\ Len(last[1].before.lots) = 2
  /\ wallet.lots = << Lot(Dec(5), Dec(3), 20180301) >>

\* the earliest date of purchase among the lots
OldestDate(lots) ==
  CHOOSE d \in {lots[i].date_of_purchase : i \in 1..Len(lots)} :
    \A i \in 1..Len(lots) : d <= lots[i].date_of_purchase

\* C20: Wallet::sell returns the date of the oldest lot the wallet held when
\* it was called, or no date and a cost_basis of zero when it held none; the
\* lots it leaves keep their dates
C20_SellDateOfPurchase ==
  Sold =>
    /\ IF last[1].before.lots = <<>>
       THEN /\ last[1].sale[1].date_of_purchase = None
            /\ last[1].sale[1].cost_basis = Zero
       ELSE last[1].sale[1].date_of_purchase =
              Some(OldestDate(last[1].before.lots))
    /\ \A i \in 1..Len(wallet.lots) :
         \E j \in 1..Len(last[1].before.lots) :
           /\ wallet.lots[i].date_of_purchase =
                last[1].before.lots[j].date_of_purchase
           /\ wallet.lots[i].unit_cost = last[1].before.lots[j].unit_cost

\* test_wallet_sell: the second sale starts in the first lot, of which the
\* first sale left 5
C20_Witness ==
  /\ calls = SubSeq(CallsSell, 1, 5)
  /\ Sold
  /\ last[1].before.lots[1].amount = Dec(5)
  /\ last[1].sale[1].date_of_purchase = Some(20180101)
  /\ last[1].sale[1].cost_basis = Dec(15)

\* the last call on the wallet was a sell that asked for more than the
\* wallet held
Overdrawn == Sold /\ DecLt(WalletCount(last[1].before), last[1].call.amount)

\* C21: a sell that asks for more than the wallet holds returns a Sale whose
\* cost_basis is that of all the lots the wallet held, and leaves the wallet
\* without any lot, so with a count of zero and no lot of negative amount
C21_OverdrawTakesEveryLot ==
  Overdrawn =>
    /\ last[1].sale # None
    /\ last[1].sale[1].cost_basis = WalletCostBasis(last[1].before)
    /\ wallet.lots = <<>>
    /\ is_zero(WalletCount(wallet))
    /\ \A i \in 1..Len(wallet.lots) : ~DecLt(wallet.lots[i].amount, Zero)

\* test_wallet_sell_in_excess_of_lots: one lot of 2 at 1, a sale of 5
C21_Witness ==
  /\ calls = CallsSellInExcess
  /\ Overdrawn
  /\ last[1].sale[1].cost_basis = Dec(2)
  /\ last[1].sale[1].date_of_purchase = Some(20180101)
  /\ wallet.cumulative_sold = Dec(5)

\* the wallet after the first i of the calls cs on a new wallet
RECURSIVE Replay(_, _)
Replay(cs, i) ==
  IF i = 0 THEN NewWallet(BTC)
  ELSE LET w == Replay(cs, i - 1) IN
    IF cs[i].op = "add_lot"
    THEN add_lot(w, cs[i].amount, cs[i].unit_cost, cs[i].date)
    ELSE WalletSell(w, cs[i].amount).wallet

\* none of the sells among the calls cs asked for more than the wallet held
NeverOverdrawn(cs) ==
  \A i \in 1..Len(cs) :
    cs[i].op = "sell" =>
      ~DecLt(WalletCount(Replay(cs, i - 1)), cs[i].amount)

\* C22: as long as no sell has asked for more than the wallet held, count()
\* is cumulative_bought less cumulative_sold, and the last sell has lowered
\* count() by exactly the amount it asked for
C22_CountIsBoughtLessSold ==
  NeverOverdrawn(calls) =>
    /\ WalletCount(wallet) =
         DecSub(wallet.cumulative_bought, wallet.cumulative_sold)
    /\ Sold =>
         WalletCount(wallet) =
           DecSub(WalletCount(last[1].before), last[1].call.amount)

\* test_wallet_sell_fail: lots of 0.0444 and 1, a sale of 0.5 leaves 0.5444
C22_Witness ==
  /\ calls = CallsSellFail
  /\ NeverOverdrawn(calls)
  /\ Sold
  /\ WalletCount(last[1].before) = <<10444, 4>>
  /\ WalletCount(wallet) = <<5444, 4>>
  /\ wallet.cumulative_sold = <<5, 1>>

\* C23: every lot the wallet stores has an amount above zero
C23_LotsPositive ==
  \A i \in 1..Len(wallet.lots) : DecLt(Zero, wallet.lots[i].amount)

\* every add_lot among the calls so far added an amount above zero
AddedPositive ==
  \A i \in 1..Len(calls) :
    calls[i].op = "add_lot" => DecLt(Zero, calls[i].amount)

\* the sells on their own keep the lots above zero: a lot a sale brings to
\* zero is removed
SellsLeaveNoEmptyLot == AddedPositive => C23_LotsPositive

\* the amounts and unit costs of the calls so far are all zero or more
NonNegativeInputs ==
  \A i \in 1..Len(calls) :
    /\ ~DecLt(calls[i].amount, Zero)
    /\ calls[i].op = "add_lot" => ~DecLt(calls[i].unit_cost, Zero)

\* C24: after calls whose amounts and unit costs are zero or more, count()
\* and cost_basis() are zero or more, whatever the sells asked for
C24_CountAndBasisNonNegative ==
  NonNegativeInputs =>
    /\ ~DecLt(WalletCount(wallet), Zero)
    /\ ~DecLt(WalletCostBasis(wallet), Zero)

\* a sell has asked for more than the wallet held, and a lot added after it
\* is still in the wallet
C24_Witness ==
  /\ NonNegativeInputs
  /\ ~NeverOverdrawn(calls)
  /\ DecLt(Zero, WalletCount(wallet))
  /\ DecLt(Zero, WalletCostBasis(wallet))
  /\ DecLt(wallet.cumulative_bought,
           DecAdd(wallet.cumulative_sold, WalletCount(wallet)))

\* the transactions export has collected
Collected ==
  UNION {Range(exchange_transactions[v]) : v \in 1..Len(exchange_transactions)}

Reverse(ordering) ==
  CASE ordering = "Less" -> "Greater"
    [] ordering = "Greater" -> "Less"
    [] OTHER -> "Equal"

\* cmp(a, b) is the reverse of cmp(b, a)
CmpReverses ==
  \A a, b \in Collected : cmp(a, b) = Reverse(cmp(b, a))

\* C25: on the transactions export collects, cmp is transitive, both as
\* a <= b and as the equality of the ordering, and cmp(a, b) is the reverse
\* of cmp(b, a)
C25_CmpTotalOrder ==
  /\ \A a, b, c \in Collected :
       /\ cmp(a, b) # "Greater" /\ cmp(b, c) # "Greater"
            => cmp(a, c) # "Greater"
       /\ cmp(a, b) = "Equal" /\ cmp(b, c) = "Equal" => cmp(a, c) = "Equal"
  /\ CmpReverses

\* C26: of two rows export writes that both carry a timestamp, the one with
\* the earlier timestamp is written first
C26_WrittenInTimestampOrder ==
  export_pc = "ok" =>
    \A i, j \in 1..Len(written[1]) :
      /\ i < j
      /\ written[1][i].created_at # None
      /\ written[1][j].created_at # None
      => written[1][i].created_at[1] <= written[1][j].created_at[1]

\* without a missing timestamp among them the rows are in timestamp order
AllStamped ==
  \A t \in Collected : t.created_at # None

WrittenInOrderWhenAllStamped == AllStamped => C26_WrittenInTimestampOrder

\* the place <<v, k>> comes before the place <<w, l>>: an earlier vector, or
\* earlier in the same vector
ComesBefore(a, b) == a[1] < b[1] \/ (a[1] = b[1] /\ a[2] < b[2])

\* C27: two rows export writes with the same timestamp, or both without one,
\* are written in the order of the vectors they come from, and in their
\* order within one vector
C27_TiesInSupplyOrder ==
  export_pc = "ok" =>
    \A i, j \in 1..Len(written[1]) :
      i < j /\ written[1][i].created_at = written[1][j].created_at
      => ComesBefore(written[1][i].id, written[1][j].id)

\* export writes every transaction it collected, once
WritesEveryTransaction ==
  export_pc = "ok" =>
    /\ Len(written[1]) = Rows(exchange_transactions)
    /\ Range(written[1]) = Collected

\* C28: export does not return the error of an adapter: it goes on to the
\* other exchanges
C28_ProviderFailureSkipped == export_pc # "err"

\* once an adapter has failed nothing is written
NothingWrittenAfterFailure == export_pc = "err" => written = None

\* the last string was made by one of the two formatters
Formatted ==
  formatted # None
  /\ formatted[1].by \in {"format_amount", "format_usd_amount"}

\* C29: parse_amount gives back the amount that format_amount or
\* format_usd_amount was given
C29_RoundTrip ==
  Formatted /\ parsed # None => parsed[1] = Ok(formatted[1].amount[1])

\* the round trip holds for the amounts of at most four decimal places
RoundTripToFourPlaces ==
  Formatted /\ parsed # None /\ formatted[1].amount[1][2] <= 4
    => parsed[1] = Ok(formatted[1].amount[1])

\* the strings of test_parse_amount are parsed as the test expects
ParsesTestInputs ==
  (/\ formatted # None /\ formatted[1].by = "input"
   /\ formatted[1].text \in TestInputs /\ parsed # None) =>
    parsed[1] =
      CASE formatted[1].text = << "0" >> -> Ok(Zero)
        [] formatted[1].text = << "0", ".", "0" >> -> Ok(Zero)
        [] formatted[1].text = << "1", ".", "1" >> -> Ok(<<11, 1>>)
        [] formatted[1].text = << "(", "1", ".", "0", ")" >> -> Ok(Dec(-1))
        [] formatted[1].text = << "$", "1", ".", "0" >> -> Ok(One)
        [] formatted[1].text = <<>> -> Err
        [] OTHER -> Ok(<<-31427, 4>>)

\* a >= 0 cut to four decimal places
CutToFourPlaces(a) ==
  IF a[2] <= 4 THEN a ELSE Norm(a[1] \div Pow10(a[2] - 4), 4)

\* C30: the two formatters put a negative amount between parentheses, with
\* its absolute value to four decimal places inside and no minus sign, and
\* put no parenthesis around an amount that is not negative;
\* format_usd_amount puts the $ first inside the parentheses
C30_NegativesInParentheses ==
  Formatted =>
    LET x == formatted[1].amount[1]
        text == formatted[1].text
        dollar == formatted[1].by = "format_usd_amount"
        inside == IF DecLt(x, Zero) THEN SubSeq(text, 2, Len(text) - 1)
                  ELSE text
        number == IF dollar THEN Tail(inside) ELSE inside
    IN /\ IF DecLt(x, Zero)
          THEN text[1] = "(" /\ text[Len(text)] = ")"
          ELSE TRUE
       /\ dollar => inside[1] = "$"
       /\ \A i \in 1..Len(number) : IsDigit(number[i]) \/ number[i] = "."
       /\ ParseBigDecimal(number) = Ok(CutToFourPlaces(DecAbs(x)))

\* format_usd_amount(-1.5) is ($1.5000)
C30_Witness ==
  /\ Formatted
  /\ formatted[1].by = "format_usd_amount"
  /\ formatted[1].amount = Some(<<-15, 1>>)
  /\ formatted[1].text = << "(", "$", "1", ".", "5", "0", "0", "0", ")" >>

\* the input is "(" content ")"
Parenthesised(s) == Len(s) >= 2 /\ s[1] = "(" /\ s[Len(s)] = ")"

\* digits with at most one point among them
IsPlain(s) ==
  /\ \A i \in 1..Len(s) : IsDigit(s[i]) \/ s[i] = "."
  /\ \E i \in 1..Len(s) : IsDigit(s[i])
  /\ Cardinality({i \in 1..Len(s) : s[i] = "."}) <= 1

\* the decimal a plain string denotes
Denoted(s) ==
  LET point == {i \in 1..Len(s) : s[i] = "."}
      digits == SelectSeq(s, IsDigit)
  IN Norm(DigitsValue(digits),
          IF point = {} THEN 0 ELSE Len(s) - (CHOOSE i \in point : TRUE))

Negated(result) ==
  IF result.ok THEN Ok(DecSub(Zero, result.value)) ELSE Err

\* C31: parse_amount gives an error for the empty string, the decimal a
\* plain string denotes, for "$" before a text what it gives for the text,
\* and for a parenthesised text the negation of what it gives for the
\* content ("($3.1427)" gives -3.1427, "(1.0)" gives -1.0)
C31_ParseAmount ==
  (formatted # None /\ parsed # None) =>
    LET input == formatted[1].text
        result == parsed[1]
    IN /\ input = <<>> => ~result.ok
       /\ IsPlain(input) => result = Ok(Denoted(input))
       /\ (input # <<>> /\ Head(input) = "$" /\ ~Parenthesised(Tail(input)))
            => result = parse_amount(Tail(input))
       /\ (Parenthesised(input)
            /\ ~Parenthesised(SubSeq(input, 2, Len(input) - 1)))
            => result = Negated(parse_amount(SubSeq(input, 2, Len(input) - 1)))
       /\ input = << "(", "1", ".", "0", ")" >> => result = Ok(Dec(-1))
       /\ input = << "(", "$", "3", ".", "1", "4", "2", "7", ")" >>
            => result = Ok(<< -31427, 4 >>)

\* "($3.1427)" has been parsed to -3.1427
C31_Witness ==
  /\ formatted # None /\ parsed # None
  /\ formatted[1].text = << "(", "$", "3", ".", "1", "4", "2", "7", ")" >>
  /\ parsed[1] = Ok(<< -31427, 4 >>)

\* C40: after every Wallet::sell the cost basis of the wallet before the call
\* is the cost_basis returned plus the cost basis of the wallet after it;
\* the lots left are the last lots held before, in the same order with the
\* same unit_cost and date, and only the first of them may hold less than
\* before
C40_SellConservesCost ==
  Sold =>
    LET before == last[1].before.lots
        after == wallet.lots
        removed == Len(before) - Len(after)
    IN /\ WalletCostBasis(last[1].before) =
            DecAdd(last[1].sale[1].cost_basis, WalletCostBasis(wallet))
       /\ removed >= 0
       /\ \A i \in 1..Len(after) :
            /\ after[i].unit_cost = before[removed + i].unit_cost
            /\ after[i].date_of_purchase =
                 before[removed + i].date_of_purchase
            /\ ~DecLt(before[removed + i].amount, after[i].amount)
            /\ i > 1 => after[i].amount = before[removed + i].amount

\* a sell used up the first of three lots and a part of the second
C40_Witness ==
  /\ Sold
  /\ Len(last[1].before.lots) = 3 /\ Len(wallet.lots) = 2
  /\ DecLt(wallet.lots[1].amount, last[1].before.lots[2].amount)
  /\ DecLt(Zero, last[1].sale[1].cost_basis)
  /\ DecLt(Zero, WalletCostBasis(wallet))

\* the sum of offered.amount over the trades of ts that offer the symbol sym
RECURSIVE SumOfferedOf(_, _)
SumOfferedOf(ts, sym) ==
  IF ts = <<>> THEN Zero
  ELSE DecAdd(IF ts[1].offered.symbol = sym THEN ts[1].offered.amount
              ELSE Zero,
              SumOfferedOf(Tail(ts), sym))

Mentioned(ts) ==
  {ts[i].offered.symbol : i \in 1..Len(ts)}
    \cup {ts[i].gained.symbol : i \in 1..Len(ts)}

\* every symbol of the ledger has a wallet, and the counters of each wallet
\* are the sums over the ledger
CountersMatchLedger ==
  /\ DOMAIN wallets = Mentioned(trades)
  /\ \A s \in DOMAIN wallets :
       /\ wallets[s].cumulative_bought = SumGained(trades, s)
       /\ wallets[s].cumulative_sold = SumOfferedOf(trades, s)

\* C37: every add_trade appends its trade to the trade list, and after it
\* the wallet of every symbol has as cumulative_bought the sum of the
\* amounts the trades gained of the symbol and as cumulative_sold the sum of
\* the amounts they offered of it, also when the wallet held less
C37_CountersFollowLedger ==
  [][pc' = "ledger" =>
       /\ Len(trades') = Len(trades) + 1
       /\ SubSeq(trades', 1, Len(trades)) = trades
       /\ CountersMatchLedger']_vars

\* a wallet was asked for more than it ever gained
C37_Witness ==
  /\ Len(trades) = 2
  /\ CountersMatchLedger
  /\ \E s \in DOMAIN wallets :
       /\ DecLt(Zero, wallets[s].cumulative_bought)
       /\ DecLt(wallets[s].cumulative_bought, wallets[s].cumulative_sold)
       /\ wallets[s].lots = <<>>

\* the sale and the acquiring trade the next iteration pops
PoppedTrade == Head(final_sales)
PoppedMatching == Head(trades_by_gained[Head(final_sales).offered.symbol])

\* the iteration split the acquiring trade and pushed its residual
SplitsMatching == Matches /\ branch' = "case_a"

\* the iteration split the sale and pushed its residual
SplitsTrade ==
  /\ Matches /\ branch' \in {"case_b_realize", "case_b_requeue"}
  /\ Len(final_sales') = Len(final_sales)

\* the proceeds of the hop: of the realization pushed, or of the sale put
\* back on the matching queue
HopProceedsOfStep ==
  IF branch' = "case_b_realize"
  THEN realizations'[Len(realizations')].proceeds
  ELSE Head(trades_by_gained'[PoppedTrade.offered.symbol]).gained.amount

\* the three sums that do not depend on how the quotient was rounded
SplitConservesButOffered ==
  /\ SplitsMatching =>
       LET residual == Head(trades_by_gained'[PoppedTrade.offered.symbol])
       IN /\ DecAdd(realizations'[Len(realizations')].cost_basis,
                    residual.offered.amount) = PoppedMatching.offered.amount
          /\ DecAdd(PoppedTrade.offered.amount, residual.gained.amount)
               = PoppedMatching.gained.amount
  /\ SplitsTrade =>
       DecAdd(HopProceedsOfStep, Head(final_sales').gained.amount)
         = PoppedTrade.gained.amount

\* C38: when the acquiring trade m is split, cost_basis + residual.offered =
\* m.offered and sale.offered + residual.gained = m.gained; when the sale is
\* split, hop proceeds + residual.gained = sale.gained and m.gained +
\* residual.offered = sale.offered
C38_SplitsConserve ==
  [][/\ SplitConservesButOffered
     /\ SplitsTrade =>
          DecAdd(PoppedMatching.gained.amount,
                 Head(final_sales').offered.amount)
            = PoppedTrade.offered.amount]_vars

\* the three sums hold on every split
SplitsConserveButOffered == [][SplitConservesButOffered]_vars

\* every amount of the ledger is strictly positive
PositiveLedger(ts) ==
  \A i \in 1..Len(ts) :
    ts[i].offered.amount[1] > 0 /\ ts[i].gained.amount[1] > 0

\* the int_val of both amounts is positive
PositiveSale(sale) ==
  sale.offered.amount[1] > 0 /\ sale.gained.amount[1] > 0

\* C36: on a ledger of strictly positive amounts every sale held in
\* final_sales or in a queue of trades_by_gained, the residuals pushed back
\* among them, offers and gains a strictly positive amount
C36_WorkItemsPositive ==
  (pc \in {"loop", "done"} /\ PositiveLedger(trades)) =>
    /\ \A i \in 1..Len(final_sales) : PositiveSale(final_sales[i])
    /\ \A s \in DOMAIN trades_by_gained :
         \A i \in 1..Len(trades_by_gained[s]) :
           PositiveSale(trades_by_gained[s][i])

\* what does hold: every sale held gains a positive amount and offers an
\* amount that is not negative
WorkItemsGainPositive ==
  (pc \in {"loop", "done"} /\ PositiveLedger(trades)) =>
    /\ \A i \in 1..Len(final_sales) :
         final_sales[i].gained.amount[1] > 0
           /\ final_sales[i].offered.amount[1] >= 0
    /\ \A s \in DOMAIN trades_by_gained :
         \A i \in 1..Len(trades_by_gained[s]) :
           trades_by_gained[s][i].gained.amount[1] > 0
             /\ trades_by_gained[s][i].offered.amount[1] >= 0

\* C39: when realizations returns on a ledger of strictly positive amounts,
\* the cost bases of its realizations add up to no more than the amounts the
\* trades of the ledger offered in the denomination
C39_BasisWithinPaid ==
  (pc = "done" /\ PositiveLedger(trades)) =>
    ~DecLt(SumOfferedOf(trades, denomination), SumBasis(realizations))

\* the timestamps of the trades of ts that gain sym, in ledger order
WhensGaining(ts, sym) ==
  LET gaining == SelectSeq(ts, LAMBDA t : t.gained.symbol = sym)
  IN [i \in 1..Len(gaining) |-> gaining[i].when]

Whens(queue) == [i \in 1..Len(queue) |-> queue[i].when]

IsSuffix(p, l) ==
  Len(p) <= Len(l) /\ SubSeq(l, Len(l) - Len(p) + 1, Len(l)) = p

\* C35: throughout the run every queue holds, in ledger order, the last of
\* the trades it was filled with: a residual takes the place of the sale it
\* comes from at the front, and no trade leaves a queue while one entered
\* before it is still there
C35_QueuesInLedgerOrder ==
  pc \in {"loop", "done"} =>
    /\ IsSuffix(Whens(final_sales), WhensGaining(trades, denomination))
    /\ \A s \in DOMAIN trades_by_gained :
         IsSuffix(Whens(trades_by_gained[s]), WhensGaining(trades, s))

\* the first of two lots has covered the first sale and half of the
\* second, the second lot only the rest of the second sale
C35_Witness ==
  /\ pc = "done" /\ trades = LedgerFirstOfTwoLots /\ denomination = USD
  /\ Len(realizations) = 3
  /\ realizations[1].acquired_when = Some(20170101)
  /\ realizations[1].disposed_when = 20200101
  /\ realizations[2].acquired_when = Some(20170101)
  /\ realizations[2].disposed_when = 20200102
  /\ realizations[3].acquired_when = Some(20180101)
  /\ trades_by_gained[BTC] = <<>>

\* the three amounts of the record are amounts for parse_amount
Parseable(line_item) ==
  /\ parse_amount(line_item.amount).ok
  /\ parse_amount(line_item.usd_rate).ok
  /\ parse_amount(line_item.usd_amount).ok

\* C32: report never panics, and it returns Ok only when every record it
\* has read held an amount, a rate and a USD amount that parse
C32_ParseErrorPropagated ==
  /\ report_pc # "panic"
  /\ report_pc = "ok" =>
       \A i \in 1..Min(item - 1, Len(line_items)) : Parseable(line_items[i])

\* the purchases and the sales among the records
IsPurchase(line_item) ==
  LET amount == parse_amount(line_item.amount)
  IN amount.ok /\ DecLt(Zero, amount.value)

IsSale(line_item) ==
  LET amount == parse_amount(line_item.amount)
  IN amount.ok /\ DecLt(amount.value, Zero)

\* the sales of a token other than USD dated in the year of the report
Disposals(items) ==
  SelectSeq(items, LAMBDA line_item :
    IsSale(line_item) /\ line_item.token # "USD"
      /\ line_item.created_at = year)

\* no record is of amount zero
NoZeroAmount(items) ==
  \A i \in 1..Len(items) :
    LET amount == parse_amount(items[i].amount)
    IN ~(amount.ok /\ is_zero(amount.value))

\* the records written between the header and the Total record
ItemRows == SubSeq(report_rows, 2, Len(report_rows) - 1)

\* when report returns, the line items are those of the disposals, in order
RowsAreDisposals ==
  (report_pc = "ok" /\ NoZeroAmount(line_items)) =>
    /\ Len(ItemRows) = Len(Disposals(line_items))
    /\ \A k \in 1..Len(ItemRows) :
         /\ ItemRows[k].date_sold = Some(year)
         /\ ItemRows[k].description = Disposals(line_items)[k].token
         /\ ItemRows[k].proceeds =
              format_usd_amount(DecAbs(
                parse_amount(Disposals(line_items)[k].usd_amount).value))

\* a purchase adds a lot and writes nothing; a sale of an earlier year
\* writes nothing and adds nothing to the totals
QuietSteps ==
  (AtLineItem /\ item' = item + 1) =>
    LET line_item == line_items[item] IN
    /\ IsPurchase(line_item) =>
         /\ report_rows' = report_rows /\ totals' = totals
         /\ Len(report_wallets'[line_item.token]) =
              1 + (IF line_item.token \in DOMAIN report_wallets
                   THEN Len(report_wallets[line_item.token]) ELSE 0)
    /\ (IsSale(line_item) /\ line_item.created_at < year) =>
         report_rows' = report_rows /\ totals' = totals

RECURSIVE SumColumn(_, _)
SumColumn(rows, column) ==
  IF rows = <<>> THEN Zero
  ELSE DecAdd(parse_amount(rows[1][column]).value,
              SumColumn(Tail(rows), column))

\* C34: the last record written is the only Total record; its proceeds,
\* cost basis and gain are the sums of those columns of the line items, and
\* its gain is its proceeds less its cost basis
C34_TotalRow ==
  report_pc = "ok" =>
    LET total == report_rows[Len(report_rows)]
        proceeds == parse_amount(total.proceeds).value
        cost_basis == parse_amount(total.cost_basis).value
        gain == parse_amount(total.gain).value
    IN /\ total.description = "Total"
       /\ \A i \in 1..(Len(report_rows) - 1) :
            report_rows[i].description # "Total"
       /\ proceeds = SumColumn(ItemRows, "proceeds")
       /\ cost_basis = SumColumn(ItemRows, "cost_basis")
       /\ gain = SumColumn(ItemRows, "gain")
       /\ gain = DecSub(proceeds, cost_basis)

\* what does hold: the totals before they are formatted
TotalsExact ==
  /\ totals.gain = DecSub(totals.proceeds, totals.cost)
  /\ report_pc = "ok" =>
       /\ report_rows[Len(report_rows)].description = "Total"
       /\ \A i \in 1..(Len(report_rows) - 1) :
            report_rows[i].description # "Total"

====
